---- MODULE Spec2Model ----
(***************************************************************************)
(* Conversation orchestration and session state engine of the chat         *)
(* backend: CustomAgentRunner.run_conversation (runner/custom_runner.py),  *)
(* the RootAgent router (chat_agent/agent.py), the state tools             *)
(* (chat_agent/tools/memory.py) and the Supabase callbacks                 *)
(* (callbacks/supabase_callbacks.py).                                       *)
(*                                                                         *)
(* A Python dict is a record with a field "keys" holding the keys that are *)
(* present; the field of an absent key holds a default of the right type   *)
(* and is never read without a test on "keys".  A user message is a tuple  *)
(* of characters, so that lower() and substring tests are computed; reply  *)
(* texts are strings, only their identity matters.                         *)
(***************************************************************************)
EXTENDS Naturals, Integers, Sequences, FiniteSets, TLC

VARIABLES
    ADK_AVAILABLE,        \* custom_runner.py: module flag set at import
    chat_sessions,        \* table chat_sessions: set of rows
    session_states,       \* table session_states: set of rows
    chat_messages,        \* table chat_messages: set of rows
    transformed_messages, \* table transformed_messages: set of rows
    risk_alerts,          \* table risk_alerts: set of rows
    api,                  \* the service instance and its last request
    running,              \* the run_conversation calls in flight
    turn,                 \* observation of the last run_conversation call
    ever_flagged,         \* some turn of the session has flagged a risk
    memory,               \* state dict handed to update_recent_memory_queue
    arrived,              \* pairs handed to update_recent_memory_queue so far
    start_queue,          \* the queue update_recent_memory_queue started from
    called                \* observation of the last call of a tool, callback
                          \* or strategy on memory

vars == <<ADK_AVAILABLE, chat_sessions, session_states, chat_messages,
          transformed_messages, risk_alerts, api, running, turn, ever_flagged, memory,
          arrived, start_queue, called>>

storeVars == <<chat_sessions, session_states, chat_messages, transformed_messages,
               risk_alerts>>
queueVars == <<memory, arrived, start_queue, called>>

----------------------------------------------------------------------------
(* Bounds *)

\* turns recorded in risk_profile.assessment_history
MaxAssessments == 2
\* entries of risk_profile.risk_categories under SpecTool
MaxFlags == 3
\* update_recent_memory_queue calls in one behaviour
MaxAppends == 4

----------------------------------------------------------------------------
(* Values *)

None == "<None>"
USER_ID == "u1"
SESSION_ID == "s1"
APP_NAME == "feelwell_chat_agent"

\* User messages, as character tuples.
MsgHi == <<"H", "i">>
MsgKill == <<"K", "i", "l", "l", " ", "m", "y", "s", "e", "l", "f">>
MsgOk == <<"o", "k">>
MsgThis == <<"t", "h", "i", "s">>
MsgSadHey == <<"S", "a", "d", " ", "h", "e", "y">>
MsgStress == <<"S", "T", "R", "E", "S", "S">>
MsgUpsetWorried == <<"u", "p", "s", "e", "t", ",", " ", "w", "o", "r", "r", "i", "e", "d">>
MsgHiWantToDie ==
    <<"h", "i", ",", " ", "W", "a", "n", "t", " ", "t", "o", " ", "d", "i", "e">>
Messages ==
    {MsgHi, MsgKill, MsgOk, MsgThis, MsgSadHey, MsgStress, MsgUpsetWorried,
     MsgHiWantToDie}
\* the messages of the turns
TurnMessages == {MsgHi, MsgKill, MsgOk}

\* The categories the detector may pass to create_risk_profile.
RiskCategories == {"suicidality", "mania"}

\* Final texts the reply-producing LLM agent may yield; NoText: no final
\* response event with text.
NoText == "<no text>"
LlmTexts == {"llm reply", NoText}
\* a final text of the LLM that consists of white space only
BlankText == " "

REPLY_CRISIS == "... call 988 if you need immediate help."
REPLY_GREETING == "Hello! I'm here to support you. How are you feeling today?"
REPLY_SAD == "I hear that you're feeling down. ..."
REPLY_ANXIOUS == "It sounds like you're feeling anxious or stressed. ..."
REPLY_DEFAULT == "Thank you for sharing that with me. I'm here to listen ..."
REPLY_APOLOGY == "I apologize, but I'm having trouble processing your message right now. Please try again."
REPLY_NO_FINAL == "I'm here to help you."

----------------------------------------------------------------------------
(* Strings *)

UpperCase == <<"A","B","C","D","E","F","G","H","I","J","K","L","M",
               "N","O","P","Q","R","S","T","U","V","W","X","Y","Z">>
LowerCase == <<"a","b","c","d","e","f","g","h","i","j","k","l","m",
               "n","o","p","q","r","s","t","u","v","w","x","y","z">>

\* str.lower() on one character
LowerChar(c) ==
    IF \E i \in 1..26 : UpperCase[i] = c
    THEN LowerCase[CHOOSE i \in 1..26 : UpperCase[i] = c]
    ELSE c

\* str.lower()
lower(s) == [i \in 1..Len(s) |-> LowerChar(s[i])]

\* Python "sub in s" on strings
Contains(sub, s) ==
    \E i \in 0..(Len(s) - Len(sub)) :
        \A j \in 1..Len(sub) : s[i + j] = sub[j]

\* any(k in s for k in ks)
AnyIn(ks, s) == \E k \in ks : Contains(k, s)

risk_keywords ==
    { <<"h","u","r","t"," ","m","y","s","e","l","f">>,
      <<"h","a","r","m"," ","m","y","s","e","l","f">>,
      <<"s","u","i","c","i","d","e">>,
      <<"k","i","l","l"," ","m","y","s","e","l","f">>,
      <<"w","a","n","t"," ","t","o"," ","d","i","e">> }
greeting_keywords ==
    { <<"h","e","l","l","o">>, <<"h","i">>, <<"h","e","y">> }
feeling_keywords ==
    { <<"s","a","d">>, <<"d","o","w","n">>, <<"u","p","s","e","t">>,
      <<"d","e","p","r","e","s","s","e","d">> }
anxious_keywords ==
    { <<"a","n","x","i","o","u","s">>, <<"w","o","r","r","i","e","d">>,
      <<"s","t","r","e","s","s">> }

----------------------------------------------------------------------------
(* Session state *)

RiskProfileKeys ==
    {"status", "active_category", "triggering_statement",
     "assessment_history", "risk_categories", "verdict"}

\* The risk_profile dict of both _create_initial_state functions.
InitialRiskProfile ==
    [ keys |-> RiskProfileKeys,
      status |-> "NO_RISK",
      active_category |-> None,
      triggering_statement |-> <<>>,
      assessment_history |-> <<>>,
      risk_categories |-> <<>>,
      verdict |-> "CLEARED" ]

\* CustomAgentRunner._create_initial_state
_create_initial_state(user_id) ==
    [ keys |-> {"user_profile", "at_risk", "risk_profile", "agent_response",
                "session_status"},
      user_profile |-> [name |-> "User", grade |-> "Unknown", at_risk |-> FALSE],
      at_risk |-> "False",
      risk_profile |-> InitialRiskProfile,
      agent_response |-> None,
      session_status |-> "OPEN",
      persona_agent_response |-> "",
      recent_memory_queue |-> <<>> ]

\* AgentService._create_initial_state; the keys context_collection,
\* active_category_risk_factors and found_risk_factors hold constants that no
\* code reads or writes and are kept in "keys" only.
AgentService_create_initial_state(email) ==
    [ keys |-> {"user_profile", "at_risk", "risk_profile", "context_collection",
                "active_category_risk_factors", "found_risk_factors",
                "session_status", "persona_agent_response",
                "recent_memory_queue", "agent_response"},
      user_profile |-> [name |-> IF email = "" THEN "User" ELSE email,
                        grade |-> "Unknown", at_risk |-> FALSE],
      at_risk |-> "False",
      risk_profile |-> InitialRiskProfile,
      agent_response |-> "",
      session_status |-> "OPEN",
      persona_agent_response |-> "",
      recent_memory_queue |-> <<>> ]

\* Body applied to the value of v, v evaluated once: a local variable that
\* holds the result of a call
Bind(v, Body(_)) == CHOOSE r \in {Body(x) : x \in {v}} : TRUE

\* dict.update(source) on a state dict
DictUpdate(target, source) ==
    LET pick(k, t, s) == IF k \in source.keys THEN s ELSE t IN
    [ keys |-> target.keys \cup source.keys,
      user_profile |-> pick("user_profile", target.user_profile, source.user_profile),
      at_risk |-> pick("at_risk", target.at_risk, source.at_risk),
      risk_profile |-> pick("risk_profile", target.risk_profile, source.risk_profile),
      agent_response |-> pick("agent_response", target.agent_response, source.agent_response),
      session_status |-> pick("session_status", target.session_status, source.session_status),
      persona_agent_response |-> pick("persona_agent_response",
                                      target.persona_agent_response,
                                      source.persona_agent_response),
      recent_memory_queue |-> pick("recent_memory_queue", target.recent_memory_queue,
                                   source.recent_memory_queue) ]

----------------------------------------------------------------------------
(* chat_agent/tools/memory.py *)

\* types.Content(role="user", parts=[types.Part(text=user_message)])
UserContent(user_message) == [role |-> "user", text |-> user_message]

\* user_content is None (FallbackContext, MinimalContext)
NoUserContent == [role |-> None, text |-> <<>>]

\* create_risk_profile with memory["at_risk"] = "True" moved to the top of
\* the try block, before memory["risk_profile"] is read
create_risk_profile_FlagFirst(triggering_statement, risk_category, state) ==
    IF "risk_profile" \notin state.keys
    THEN [status |-> "ERROR",
          state |-> [state EXCEPT !.keys = @ \cup {"at_risk"}, !.at_risk = "True"]]
    ELSE
      LET held == state.risk_profile
          rp2 == [held EXCEPT !.keys = @ \cup {"triggering_statement", "verdict"},
                              !.triggering_statement = triggering_statement,
                              !.risk_categories = Append(@, risk_category),
                              !.verdict = "UNCONFIRMED"]
      IN [status |-> "SUCCESS",
          state |-> [state EXCEPT !.keys = @ \cup {"at_risk", "risk_profile"},
                                  !.at_risk = "True",
                                  !.risk_profile = rp2]]

\* create_risk_profile(triggering_statement, risk_category, tool_context):
\* the tool's return status and the state it leaves.  The assignments before
\* a KeyError act on the dict held by the state and stay.
create_risk_profile(triggering_statement, risk_category, state) ==
    IF "risk_profile" \notin state.keys
    THEN [status |-> "ERROR", state |-> state]
    ELSE
      LET held == state.risk_profile
          fresh == held.keys = {}
          rp0 == IF fresh
                 THEN [held EXCEPT !.keys = {"triggering_statement", "risk_categories",
                                             "assessment_history", "verdict"},
                                   !.triggering_statement = <<>>,
                                   !.risk_categories = <<>>,
                                   !.assessment_history = <<>>,
                                   !.verdict = "CLEARED"]
                 ELSE held
          rp1 == [rp0 EXCEPT !.keys = @ \cup {"triggering_statement"},
                             !.triggering_statement = triggering_statement]
      IN IF "risk_categories" \notin rp1.keys
         THEN [status |-> "ERROR",
               state |-> IF fresh THEN state ELSE [state EXCEPT !.risk_profile = rp1]]
         ELSE
           LET rp2 == [rp1 EXCEPT !.risk_categories = Append(@, risk_category),
                                  !.keys = @ \cup {"verdict"},
                                  !.verdict = "UNCONFIRMED"]
           IN [status |-> "SUCCESS",
               state |-> [state EXCEPT !.keys = @ \cup {"at_risk", "risk_profile"},
                                       !.at_risk = "True",
                                       !.risk_profile = rp2]]

\* recent_memory_queue[-5:]
LastFive(q) == SubSeq(q, Len(q) - 4, Len(q))

\* recent_memory_queue[:6]
FirstSix(q) == SubSeq(q, 1, 6)

\* recent_memory_queue[-6:]
LastSix(q) == SubSeq(q, Len(q) - 5, Len(q))

\* update_recent_memory_queue(callback_context): raised tells whether the
\* function ended in an exception, state is the state dict it leaves.
update_recent_memory_queue(state, user_content) ==
    LET m0 == IF "recent_memory_queue" \notin state.keys
              THEN [state EXCEPT !.keys = @ \cup {"recent_memory_queue"},
                                 !.recent_memory_queue = <<>>]
              ELSE state
    IN IF user_content = NoUserContent \/ "persona_agent_response" \notin m0.keys
       THEN [raised |-> TRUE, state |-> m0]
       ELSE
         LET new_entries == << [role |-> user_content.role, text |-> user_content.text],
                               [role |-> "model", text |-> m0.persona_agent_response] >>
             extended == m0.recent_memory_queue \o new_entries
             trimmed == IF Len(extended) > 6 THEN LastSix(extended) ELSE extended
         IN [raised |-> FALSE, state |-> [m0 EXCEPT !.recent_memory_queue = trimmed]]

\* _update_assessment_history(callback_context)
_update_assessment_history(state, user_content) ==
    IF \/ "risk_profile" \notin state.keys
       \/ "assessment_history" \notin state.risk_profile.keys
       \/ user_content = NoUserContent
       \/ "agent_response" \notin state.keys
    THEN [raised |-> TRUE, state |-> state]
    ELSE
      LET new_assessment_history ==
              state.risk_profile.assessment_history \o
              << [role |-> user_content.role, text |-> user_content.text],
                 [role |-> "model", text |-> state.agent_response] >>
      IN [raised |-> FALSE,
          state |-> [state EXCEPT !.risk_profile.assessment_history =
                                      new_assessment_history]]

----------------------------------------------------------------------------
(* runner/custom_runner.py: strategies *)

\* the if/elif chain of _process_with_fallback with the greeting test moved
\* before the risk test
KeywordGroupGreetingFirst(user_message) ==
    LET message_lower == lower(user_message) IN
    IF AnyIn(greeting_keywords, message_lower) THEN "greeting"
    ELSE IF AnyIn(risk_keywords, message_lower) THEN "risk"
    ELSE IF AnyIn(feeling_keywords, message_lower) THEN "feeling"
    ELSE IF AnyIn(anxious_keywords, message_lower) THEN "anxious"
    ELSE "default"

\* the keyword group of _process_with_fallback that decides the reply to a
\* message: the first group in the order of the if/elif chain with a keyword
\* in message_lower
KeywordGroup(user_message) ==
    LET message_lower == lower(user_message) IN
    IF AnyIn(risk_keywords, message_lower) THEN "risk"
    ELSE IF AnyIn(greeting_keywords, message_lower) THEN "greeting"
    ELSE IF AnyIn(feeling_keywords, message_lower) THEN "feeling"
    ELSE IF AnyIn(anxious_keywords, message_lower) THEN "anxious"
    ELSE "default"

\* KeywordGroup, tabulated over the messages of the model
KeywordGroupOf == [m \in Messages |-> KeywordGroup(m)]

\* _process_with_fallback marking the user's profile as well on a risk
_process_with_fallback_MarksUser(state, user_message) ==
    LET group == KeywordGroupOf[user_message] IN
    IF group = "risk"
    THEN [ state |-> [state EXCEPT
                        !.keys = @ \cup {"at_risk", "risk_profile"},
                        !.at_risk = "True",
                        !.user_profile.at_risk = TRUE,
                        !.risk_profile =
                            [ InitialRiskProfile EXCEPT
                                !.keys = {"triggering_statement", "risk_categories",
                                          "verdict"},
                                !.triggering_statement = user_message,
                                !.risk_categories = <<"Suicidality">>,
                                !.verdict = "UNCONFIRMED" ]],
           flagged |-> TRUE,
           reply |-> REPLY_CRISIS ]
    ELSE [ state |-> state,
           flagged |-> FALSE,
           reply |-> IF group = "greeting" THEN REPLY_GREETING
                     ELSE IF group = "feeling" THEN REPLY_SAD
                     ELSE IF group = "anxious" THEN REPLY_ANXIOUS
                     ELSE REPLY_DEFAULT ]

\* CustomAgentRunner._process_with_fallback(callback_context, user_message)
_process_with_fallback(state, user_message) ==
    LET group == KeywordGroupOf[user_message] IN
    IF group = "risk"
    THEN [ state |-> [state EXCEPT
                        !.keys = @ \cup {"at_risk", "risk_profile"},
                        !.at_risk = "True",
                        !.risk_profile =
                            [ InitialRiskProfile EXCEPT
                                !.keys = {"triggering_statement", "risk_categories",
                                          "verdict"},
                                !.triggering_statement = user_message,
                                !.risk_categories = <<"Suicidality">>,
                                !.verdict = "UNCONFIRMED" ]],
           flagged |-> TRUE,
           reply |-> REPLY_CRISIS ]
    ELSE [ state |-> state,
           flagged |-> FALSE,
           reply |-> IF group = "greeting" THEN REPLY_GREETING
                     ELSE IF group = "feeling" THEN REPLY_SAD
                     ELSE IF group = "anxious" THEN REPLY_ANXIOUS
                     ELSE REPLY_DEFAULT ]

\* str.strip() on the texts of the model
Strip(text) == IF text = " " THEN "" ELSE text

\* An event yielded by an agent: text = NoText when the event carries no
\* text part.
Event(author, text) == [author |-> author, is_final_response |-> TRUE, text |-> text]

RECURSIVE LastFinalText(_)
\* the loop of _extract_final_response over reversed(events)
LastFinalText(events) ==
    IF events = <<>> THEN ""
    ELSE LET event == events[Len(events)] IN
         IF event.is_final_response /\ event.text # NoText /\ event.text # ""
         THEN event.text
         ELSE LastFinalText(SubSeq(events, 1, Len(events) - 1))

\* CustomAgentRunner._extract_final_response(events)
_extract_final_response(events) ==
    LET final_response_text == LastFinalText(events) IN
    IF final_response_text # "" THEN Strip(final_response_text) ELSE REPLY_NO_FINAL

----------------------------------------------------------------------------
(* chat_agent/agent.py *)

\* string_to_bool[state.get("at_risk")] is defined
AtRiskReadable(state) == "at_risk" \in state.keys /\ state.at_risk \in {"True", "False"}

\* crisis_detection_agent: detect = "none" when the LLM does not call the
\* tool, else the risk_category it passes; the triggering statement is the
\* LLM's pick, taken to be the user's message.  It answers "True" after a
\* call and "False" otherwise (prompt.py).
crisis_detection_agent(state, user_content, detect) ==
    IF detect = "none"
    THEN [state |-> state, flagged |-> FALSE,
          events |-> <<Event("CrisisDetectionAgent", "False")>>]
    ELSE Bind(create_risk_profile(user_content.text, detect, state),
              LAMBDA ret :
                  [state |-> ret.state, flagged |-> ret.status = "SUCCESS",
                   events |-> <<Event("CrisisDetectionAgent", "True")>>])

\* context_collection_agent: output_key="agent_response" stores the final
\* text, then after_agent_callback=_update_assessment_history runs.
context_collection_agent(state, user_content, text) ==
    LET s1 == IF text = NoText THEN state
              ELSE [state EXCEPT !.keys = @ \cup {"agent_response"},
                                 !.agent_response = text]
    IN Bind(_update_assessment_history(s1, user_content),
            LAMBDA cb :
                [raised |-> cb.raised, state |-> cb.state,
                 events |-> <<Event("ContextCollectionAgent", text)>>])

\* persona_agent given the output_key and the after_agent_callback of
\* context_collection_agent
persona_agent_WithHistory(state, user_content, text) ==
    LET s1 == IF text = NoText THEN state
              ELSE [state EXCEPT !.keys = @ \cup {"agent_response"},
                                 !.agent_response = text]
    IN Bind(_update_assessment_history(s1, user_content),
            LAMBDA cb :
                [raised |-> cb.raised, state |-> cb.state,
                 events |-> <<Event("PersonaAgent", text)>>])

\* persona_agent: no output_key, no callbacks
persona_agent(state, user_content, text) ==
    [raised |-> FALSE, state |-> state, events |-> <<Event("PersonaAgent", text)>>]

\* the two branches of the routing exchanged
RouteExchanged(is_at_risk) ==
    IF is_at_risk THEN "PersonaAgent" ELSE "ContextCollectionAgent"

\* the routing of RootAgent._run_async_impl on the second read of at_risk
Route(is_at_risk) ==
    IF is_at_risk THEN "ContextCollectionAgent" ELSE "PersonaAgent"

\* RootAgent._run_async_impl.  fail_at names the agent whose LLM call raises
\* ("none": no call raises).  Routed is the part after the detector step: the
\* second read of at_risk and the reply agent.
_run_async_impl(state, user_content, detect, text, fail_at) ==
    LET none == [raised |-> TRUE, state |-> state, events |-> <<>>, agents |-> <<>>,
                 flagged |-> FALSE, at_risk_read |-> ""]
        Routed(det, ran) ==
            LET is_at_risk == det.state.at_risk = "True"
                replier == Route(is_at_risk)
            IN IF fail_at = "reply"
               THEN [raised |-> TRUE, state |-> det.state, events |-> det.events,
                     agents |-> Append(ran, replier), flagged |-> det.flagged,
                     at_risk_read |-> det.state.at_risk]
               ELSE Bind(IF replier = "ContextCollectionAgent"
                         THEN context_collection_agent(det.state, user_content, text)
                         ELSE persona_agent(det.state, user_content, text),
                         LAMBDA rep :
                             [raised |-> rep.raised, state |-> rep.state,
                              events |-> det.events \o rep.events,
                              agents |-> Append(ran, replier),
                              flagged |-> det.flagged,
                              at_risk_read |-> det.state.at_risk])
    IN
    IF ~AtRiskReadable(state) THEN none
    ELSE
      LET is_at_risk == state.at_risk = "True" IN
      IF is_at_risk
      THEN Routed([state |-> state, flagged |-> FALSE, events |-> <<>>], <<>>)
      ELSE IF fail_at = "CrisisDetectionAgent"
      THEN [none EXCEPT !.agents = <<"CrisisDetectionAgent">>]
      ELSE Bind(crisis_detection_agent(state, user_content, detect),
                LAMBDA det : Routed(det, <<"CrisisDetectionAgent">>))

\* the outcome of a turn the fallback answers; agent_flagged: the flag the
\* detector raised before the fallback took over; primary: "raised" when the
\* agent was run and raised, "none" when it was not run
Fallback(state, user_message, agents, at_risk_read, agent_flagged, primary) ==
    Bind(_process_with_fallback(state, user_message),
         LAMBDA fb :
             [state |-> fb.state, reply |-> fb.reply, replied_by |-> "fallback",
              agents |-> agents, at_risk_read |-> at_risk_read,
              primary |-> primary,
              flags |-> (IF agent_flagged THEN 1 ELSE 0)
                        + (IF fb.flagged THEN 1 ELSE 0)])

\* CustomAgentRunner._process_with_adk: the agent's events, or the fallback on
\* the state the agent left when it raised.
_process_with_adk(state, user_content, user_message, detect, text, fail_at) ==
    Bind(_run_async_impl(state, user_content, detect, text, fail_at),
         LAMBDA run :
             IF run.raised
             THEN Fallback(run.state, user_message, run.agents, run.at_risk_read,
                           run.flagged, "raised")
             ELSE [state |-> run.state,
                   reply |-> _extract_final_response(run.events),
                   replied_by |-> run.agents[Len(run.agents)],
                   agents |-> run.agents, at_risk_read |-> run.at_risk_read,
                   primary |-> IF text = NoText THEN "no_text" ELSE "ok",
                   flags |-> IF run.flagged THEN 1 ELSE 0])

\* CustomAgentRunner._process_with_agent
_process_with_agent(state, user_content, user_message, adk_runner, detect, text, fail_at) ==
    IF adk_runner /\ ADK_AVAILABLE
    THEN _process_with_adk(state, user_content, user_message, detect, text, fail_at)
    ELSE Fallback(state, user_message, <<>>, "", FALSE, "none")

----------------------------------------------------------------------------
(* Store: runner/custom_runner.py CustomSupabaseSessionService and         *)
(* callbacks/supabase_callbacks.py.  A store call in "fails" raises inside *)
(* the Supabase client.                                                    *)

StoreOps ==
    {"get_session", "create_session", "get_session_after_create",
     "load_existing_state", "store_state", "store_user_message",
     "store_assistant_message", "store_transformed_message",
     "update_session_state"}

\* the store calls that fail in one turn: any of them
FailureSets == SUBSET StoreOps

\* the store calls of run_conversation after the strategy returned the reply
PersistenceOps ==
    {"store_state", "store_user_message", "store_assistant_message",
     "store_transformed_message", "update_session_state"}

\* get_session if the select filtered on the session id only
get_session_AnyUser(sessions, user_id, session_id, failed) ==
    IF failed THEN {}
    ELSE {r \in sessions : r.id = session_id /\ r.app_name = APP_NAME}

\* CustomSupabaseSessionService.get_session: the rows the select returns
get_session(sessions, user_id, session_id, failed) ==
    IF failed THEN {}
    ELSE {r \in sessions : r.id = session_id /\ r.user_id = user_id
                           /\ r.app_name = APP_NAME}

\* the row create_session would insert if it dropped the initial state
SessionRowEmptyState(user_id, session_id, initial_state) ==
    [id |-> session_id, user_id |-> user_id, app_name |-> APP_NAME,
     state |-> [initial_state EXCEPT !.keys = {}], last_message |-> None]

\* the row CustomSupabaseSessionService.create_session inserts
SessionRow(user_id, session_id, initial_state) ==
    [id |-> session_id, user_id |-> user_id, app_name |-> APP_NAME,
     state |-> initial_state, last_message |-> None]

\* create_session logs the exception of the insert and returns
CreateSwallows(sessions, session_id, failed) == FALSE

\* CustomSupabaseSessionService.create_session raises: the insert fails, or
\* the id is taken
CreateRaises(sessions, session_id, failed) ==
    failed \/ \E r \in sessions : r.id = session_id

\* update_session_state if it kept a stored state whose at_risk is "True"
update_session_state_KeepFlag(sessions, user_id, session_id, state, failed) ==
    IF failed THEN sessions
    ELSE {IF r.id = session_id /\ r.user_id = user_id /\ r.app_name = APP_NAME
             /\ r.state.at_risk # "True"
          THEN [r EXCEPT !.state = state] ELSE r : r \in sessions}

\* CustomSupabaseSessionService.update_session_state
update_session_state(sessions, user_id, session_id, state, failed) ==
    IF failed THEN sessions
    ELSE {IF r.id = session_id /\ r.user_id = user_id /\ r.app_name = APP_NAME
          THEN [r EXCEPT !.state = state] ELSE r : r \in sessions}

\* SupabaseCallbackManager._load_existing_state: the states the select returns
_load_existing_state(states, session_id, user_id, failed) ==
    IF failed THEN {}
    ELSE {r.state : r \in {x \in states : x.session_id = session_id
                                          /\ x.user_id = user_id}}

\* before_agent_call if it reset the context state to the initial state
before_agent_call_Reset(state, states, session_id, user_id, failed) ==
    _create_initial_state(user_id)

\* SupabaseCallbackManager.before_agent_call: the context state after the
\* merge of the session_states row
before_agent_call(state, states, session_id, user_id, failed) ==
    LET existing == _load_existing_state(states, session_id, user_id, failed) IN
    IF existing = {} THEN state
    ELSE LET existing_state == CHOOSE e \in existing : TRUE IN
         IF existing_state.keys = {} THEN state
         ELSE DictUpdate(state, existing_state)

\* SupabaseStateCallback.store_state: upsert on (session_id, user_id)
store_state(states, session_id, user_id, state, failed) ==
    IF failed THEN states
    ELSE {r \in states : ~(r.session_id = session_id /\ r.user_id = user_id)}
         \cup {[session_id |-> session_id, user_id |-> user_id, state |-> state]}

\* SupabaseMessageCallback._store_single_message.  A table of inserted rows
\* is the set of the rows without id, content and timestamp.
_store_single_message(messages, session_id, user_id, role, failed) ==
    IF failed THEN messages
    ELSE messages \cup {[session_id |-> session_id, user_id |-> user_id,
                         role |-> role]}

\* SupabaseMessageCallback.store_transformed_message
store_transformed_message(rows, session_id, user_id, risk_status, failed) ==
    IF failed THEN rows
    ELSE rows \cup {[session_id |-> session_id, user_id |-> user_id,
                     transformation_type |-> "conversation_turn",
                     risk_status |-> risk_status]}

\* AgentService._store_message
_store_message(messages, session_id, user_id, role, failed) ==
    IF failed THEN messages
    ELSE messages \cup {[session_id |-> session_id, user_id |-> user_id,
                         role |-> role]}

\* AgentService._update_session_state with updates = {"last_message":
\* response, "updated_at": "now()"}: the columns of the row are updated, its
\* state column is not among them
_update_session_state(sessions, session_id, user_id, last_message, failed) ==
    IF failed THEN sessions
    ELSE {IF r.id = session_id /\ r.user_id = user_id
          THEN [r EXCEPT !.last_message = last_message] ELSE r : r \in sessions}

\* AgentService._create_risk_alert
_create_risk_alert(alerts, user_id, session_id, triggering_statement, risk_category, failed) ==
    IF failed THEN alerts
    ELSE alerts \cup {[session_id |-> session_id, user_id |-> user_id,
                       triggering_statement |-> triggering_statement,
                       risk_categories |-> <<risk_category>>,
                       verdict |-> "UNCONFIRMED"]}

\* the chain if it tested the feeling keywords before the greetings
AgentService_KeywordGroupFeelingFirst(user_message) ==
    LET message_lower == lower(user_message) IN
    IF AnyIn(risk_keywords, message_lower) THEN "risk"
    ELSE IF AnyIn(feeling_keywords, message_lower) THEN "feeling"
    ELSE IF AnyIn(greeting_keywords, message_lower) THEN "greeting"
    ELSE IF AnyIn(anxious_keywords, message_lower) THEN "anxious"
    ELSE "default"

\* the branch of the if/elif chain of AgentService._process_with_fallback a
\* message takes
AgentService_KeywordGroup(user_message) ==
    LET message_lower == lower(user_message) IN
    IF AnyIn(risk_keywords, message_lower) THEN "risk"
    ELSE IF AnyIn(greeting_keywords, message_lower) THEN "greeting"
    ELSE IF AnyIn(feeling_keywords, message_lower) THEN "feeling"
    ELSE IF AnyIn(anxious_keywords, message_lower) THEN "anxious"
    ELSE "default"

\* AgentService_KeywordGroup, tabulated over the messages of the model
AgentService_KeywordGroupOf == [m \in Messages |-> AgentService_KeywordGroup(m)]

\* the response of AgentService._process_with_fallback
AgentService_response(user_message) ==
    LET group == AgentService_KeywordGroupOf[user_message] IN
    IF group = "risk" THEN REPLY_CRISIS
    ELSE IF group = "greeting" THEN REPLY_GREETING
    ELSE IF group = "feeling" THEN REPLY_SAD
    ELSE IF group = "anxious" THEN REPLY_ANXIOUS
    ELSE REPLY_DEFAULT

\* CustomAgentRunner._create_callback_context: user_content of the context
_create_callback_context(user_message) ==
    IF ADK_AVAILABLE THEN UserContent(user_message) ELSE NoUserContent

\* the user message store_conversation_turn extracts from the context
ExtractedUserMessage(user_content) ==
    IF user_content = NoUserContent THEN <<>> ELSE user_content.text

\* an exception of the persistence steps reaches run_conversation's except
\* clause, which returns the apology
ReturnedReplyUnswallowed(agent_response, fails) ==
    IF fails \cap {"store_state", "store_user_message", "store_assistant_message",
                   "store_transformed_message", "update_session_state"} # {}
    THEN REPLY_APOLOGY ELSE agent_response

\* what run_conversation returns once _process_with_agent returned
\* agent_response: after_agent_response and update_session_state log and
\* swallow the exceptions of the store calls in fails
ReturnedReply(agent_response, fails) == agent_response

\* the writes of one turn if update_session_state ran before
\* after_agent_response
TurnWrites_UpdateFirst(fails) ==
    LET w(op, table, role) == IF op \in fails THEN <<>>
                              ELSE <<[table |-> table, role |-> role]>>
    IN w("update_session_state", "chat_sessions", None)
       \o w("store_state", "session_states", None)
       \o w("store_user_message", "chat_messages", "user")
       \o w("store_assistant_message", "chat_messages", "assistant")
       \o w("store_transformed_message", "transformed_messages", None)

\* the writes of one turn that were carried out, in the order of the calls
\* of after_agent_response and run_conversation
TurnWrites(fails) ==
    LET w(op, table, role) == IF op \in fails THEN <<>>
                              ELSE <<[table |-> table, role |-> role]>>
    IN w("store_state", "session_states", None)
       \o w("store_user_message", "chat_messages", "user")
       \o w("store_assistant_message", "chat_messages", "assistant")
       \o w("store_transformed_message", "transformed_messages", None)
       \o w("update_session_state", "chat_sessions", None)

NoState == [_create_initial_state(USER_ID) EXCEPT !.keys = {}]

\* turn: phase is the position of the run_conversation call ("idle": none
\* yet, "received": called, "awaiting": inside agent.run_async, "returned":
\* it returned reply); primary tells how the agent run ended ("none": not
\* run, "ok", "raised", "no_text": it ended with no final text of the reply
\* agent)
NoTurn ==
    [ phase |-> "idle", completed |-> FALSE, user_id |-> "",
      user_message |-> <<>>, pre |-> NoState,
      post |-> NoState, replied_by |-> "none", agents |-> <<>>,
      at_risk_read |-> "", flags |-> 0, primary |-> "none",
      reply |-> None, created |-> FALSE, stored_user_message |-> <<>>,
      writes |-> <<>>, existed |-> FALSE, fails |-> {}, agent_response |-> None ]

\* a chat_sessions row of the user's session is stored
SessionExistsFor(sessions, user_id, session_id) ==
    \E r \in sessions : r.id = session_id /\ r.user_id = user_id
                         /\ r.app_name = APP_NAME

\* a chat_sessions row of the session is stored
SessionExists(sessions) == SessionExistsFor(sessions, USER_ID, SESSION_ID)

\* api: custom_runner tells whether AgentService holds a custom runner;
\* deleted holds the users for whom delete_session of the session returned
\* True with no create_session of theirs for that id since; last is the last
\* request: its route, the user it ran as ("": none), the status code of the
\* answer, whether a strategy ran and what was returned; drawn tells whether
\* uuid4 has drawn the session id
NoRequest ==
    [ route |-> "none", credential |-> "none", user_id |-> "", status |-> 0,
      ran |-> FALSE, returned |-> None ]
NoApi == [ custom_runner |-> FALSE, drawn |-> FALSE, deleted |-> {}, last |-> NoRequest ]

\* the run_conversation calls that can be in flight at once
Calls == {1, 2}

\* running: per call its position ("idle": not called, "awaiting": session
\* loaded, inside _process_with_agent, "stored": after_agent_response done,
\* "done": returned), the state its callback context was built from and the
\* state it ended with; last_store and last_update are the calls whose
\* store_state and update_session_state ran last (0: none)
Idle == [ phase |-> "idle", user_message |-> <<>>, pre |-> NoState, post |-> NoState,
          flags |-> 0 ]
NoRunning == [ call |-> [c \in Calls |-> Idle], last_store |-> 0, last_update |-> 0 ]

\* called: fn is the function called ("none": no call yet), before the state
\* dict it was called on, statement the message or triggering statement it
\* was given, status the status create_risk_profile returned, reply the reply
\* _process_with_fallback returned
NoCall ==
    [ fn |-> "none", status |-> "none", before |-> NoState, statement |-> <<>>,
      risk_category |-> "", reply |-> None ]

----------------------------------------------------------------------------
(* Operations *)

\* the lists of a state are within the bounds of the model
WithinBounds(state) ==
    Len(state.risk_profile.assessment_history) <= 2 * MaxAssessments

Init ==
    /\ ADK_AVAILABLE \in BOOLEAN
    /\ chat_sessions = {}
    /\ session_states = {}
    /\ chat_messages = {}
    /\ transformed_messages = {}
    /\ risk_alerts = {}
    /\ api = NoApi
    /\ running = NoRunning
    /\ turn = NoTurn
    /\ ever_flagged = FALSE
    /\ memory = NoState
    /\ arrived = <<>>
    /\ start_queue = <<>>
    /\ called = NoCall

\* The choices of a turn that the turn reads; a choice it does not read has
\* its first value.  Without the ADK runner no agent runs; the detector runs
\* only when the turn starts with at_risk "False"; an agent whose LLM call
\* raises yields no text.
ChoicesRead(pre, adk_runner, detect, text, fail_at) ==
    LET adk == adk_runner /\ ADK_AVAILABLE
        detector == adk /\ AtRiskReadable(pre) /\ pre.at_risk = "False"
    IN /\ ~adk => fail_at = "none"
       /\ fail_at = "CrisisDetectionAgent" => detector
       /\ (~detector \/ fail_at = "CrisisDetectionAgent") => detect = "none"
       /\ (~adk \/ fail_at # "none") => text = NoText

\* AgentService.create_session through the runner's session service, for
\* the session id uuid4 draws
CreateSession ==
    /\ ~CreateRaises(chat_sessions, SESSION_ID, FALSE)
    /\ chat_sessions' = chat_sessions \cup
           {SessionRow(USER_ID, SESSION_ID,
                       AgentService_create_initial_state("u1@example.org"))}
    /\ UNCHANGED <<ADK_AVAILABLE, running, api, session_states, chat_messages,
                   transformed_messages, risk_alerts, turn, ever_flagged, queueVars>>

\* CustomAgentRunner.run_conversation(user_id, session_id, user_message):
\* the session cannot be loaded or created, the apology is returned; the
\* tables and turn
RunConversationLoadFailsFor(user_id, session_id, user_message, fails) ==
    LET got == get_session(chat_sessions, user_id, session_id, "get_session" \in fails)
        raises == CreateRaises(chat_sessions, session_id, "create_session" \in fails)
        created == IF raises THEN chat_sessions
                   ELSE chat_sessions \cup
                        {SessionRow(user_id, session_id, _create_initial_state(user_id))}
        again == get_session(created, user_id, session_id,
                             "get_session_after_create" \in fails)
    IN /\ got = {}
       /\ raises \/ again = {}
       /\ chat_sessions' = created
       /\ turn' = [NoTurn EXCEPT !.phase = "returned", !.user_id = user_id,
                                 !.user_message = user_message,
                                 !.reply = REPLY_APOLOGY, !.created = ~raises,
                                 !.existed = SessionExistsFor(chat_sessions, user_id, session_id),
                                 !.fails = fails]
       /\ UNCHANGED <<ADK_AVAILABLE, running, session_states, chat_messages,
                      transformed_messages, risk_alerts, ever_flagged, queueVars>>

\* CustomAgentRunner.run_conversation: the whole turn once the session is
\* loaded (created first when absent); the tables, turn and ever_flagged
RunConversationFor(user_id, session_id, user_message, adk_runner, detect, text, fail_at, fails) ==
    LET got == get_session(chat_sessions, user_id, session_id, "get_session" \in fails)
        raises == CreateRaises(chat_sessions, session_id, "create_session" \in fails)
        sessions1 == IF got = {} /\ ~raises
                     THEN chat_sessions \cup
                          {SessionRow(user_id, session_id, _create_initial_state(user_id))}
                     ELSE chat_sessions
        session_data == IF got # {} THEN got
                        ELSE IF raises THEN {}
                        ELSE get_session(sessions1, user_id, session_id,
                                         "get_session_after_create" \in fails)
        user_content == _create_callback_context(user_message)
    IN /\ session_data # {}
       /\ \E pre \in {before_agent_call((CHOOSE r \in session_data : TRUE).state,
                                         session_states, session_id, user_id,
                                         "load_existing_state" \in fails)} :
          /\ ChoicesRead(pre, adk_runner, detect, text, fail_at)
          /\ \E out \in {_process_with_agent(pre, user_content, user_message,
                                              adk_runner, detect, text, fail_at)} :
             /\ WithinBounds(out.state)
             /\ session_states' =
                    store_state(session_states, session_id, user_id, out.state,
                                "store_state" \in fails)
             /\ chat_messages' =
                    _store_single_message(
                        _store_single_message(chat_messages, session_id, user_id, "user",
                                              "store_user_message" \in fails),
                        session_id, user_id, "assistant",
                        "store_assistant_message" \in fails)
             /\ transformed_messages' =
                    store_transformed_message(
                        transformed_messages, session_id, user_id,
                        IF "at_risk" \in out.state.keys THEN out.state.at_risk ELSE "False",
                        "store_transformed_message" \in fails)
             /\ chat_sessions' =
                    update_session_state(sessions1, user_id, session_id, out.state,
                                         "update_session_state" \in fails)
             /\ turn' = [ phase |-> "returned", completed |-> TRUE,
                          user_id |-> user_id,
                          user_message |-> user_message, pre |-> pre,
                          post |-> out.state, replied_by |-> out.replied_by,
                          agents |-> out.agents, primary |-> out.primary,
                          at_risk_read |-> out.at_risk_read, flags |-> out.flags,
                          reply |-> ReturnedReply(out.reply, fails),
                          agent_response |-> out.reply, created |-> got = {},
                          stored_user_message |-> ExtractedUserMessage(user_content),
                          writes |-> TurnWrites(fails),
                          existed |-> SessionExistsFor(chat_sessions, user_id, session_id),
                          fails |-> fails ]
             /\ ever_flagged' = (ever_flagged \/ out.flags > 0)
       /\ UNCHANGED <<ADK_AVAILABLE, running, risk_alerts, queueVars>>

\* run_conversation of the user for the session: the apology of a session
\* that cannot be loaded or created
RunConversationLoadFails(user_message, fails) ==
    /\ RunConversationLoadFailsFor(USER_ID, SESSION_ID, user_message, fails)
    /\ UNCHANGED api

\* run_conversation of the user for the session: the whole turn
RunConversation(user_message, adk_runner, detect, text, fail_at, fails) ==
    /\ RunConversationFor(USER_ID, SESSION_ID, user_message, adk_runner, detect, text,
                          fail_at, fails)
    /\ UNCHANGED api

\* update_recent_memory_queue applied to a state dict whose
\* persona_agent_response holds the response of the turn
UpdateRecentMemoryQueue(user_message, response) ==
    LET before == [memory EXCEPT !.keys = @ \cup {"persona_agent_response"},
                                 !.persona_agent_response = response]
        ret == update_recent_memory_queue(before, UserContent(user_message))
    IN /\ Len(arrived) < 2 * MaxAppends
       /\ memory' = ret.state
       /\ arrived' = IF ret.raised THEN arrived
                     ELSE arrived \o << [role |-> "user", text |-> user_message],
                                        [role |-> "model", text |-> response] >>
       /\ UNCHANGED <<ADK_AVAILABLE, running, api, storeVars, turn, ever_flagged, start_queue,
                      called>>

\* update_recent_memory_queue applied to the state dict as it is: the
\* KeyError on persona_agent_response when the state has no such key
UpdateRecentMemoryQueueRaises(user_message) ==
    LET ret == update_recent_memory_queue(memory, UserContent(user_message)) IN
    /\ ret.raised
    /\ memory' = ret.state
    /\ memory' # memory
    /\ UNCHANGED <<ADK_AVAILABLE, running, api, storeVars, turn, ever_flagged, arrived, start_queue,
                   called>>

\* Queues a stored state may hold when update_recent_memory_queue is called:
\* what earlier calls leave, zero to three whole pairs.
BaseQueue ==
    << [role |-> "user", text |-> MsgOk], [role |-> "model", text |-> "r1"],
       [role |-> "user", text |-> MsgHi], [role |-> "model", text |-> "r2"],
       [role |-> "user", text |-> MsgKill], [role |-> "model", text |-> "r3"] >>
StartQueues == {SubSeq(BaseQueue, 1, 2 * k) : k \in 0..(Len(BaseQueue) \div 2)}

\* the state dicts update_recent_memory_queue starts from: the fresh states
\* of both constructors, and states holding a queue
InitQueue ==
    /\ ADK_AVAILABLE = TRUE
    /\ chat_sessions = {}
    /\ session_states = {}
    /\ chat_messages = {}
    /\ transformed_messages = {}
    /\ risk_alerts = {}
    /\ api = NoApi
    /\ running = NoRunning
    /\ turn = NoTurn
    /\ ever_flagged = FALSE
    /\ arrived = <<>>
    /\ called = NoCall
    /\ \/ /\ start_queue \in StartQueues
          /\ memory = [AgentService_create_initial_state("u1@example.org")
                           EXCEPT !.recent_memory_queue = start_queue]
       \/ /\ start_queue = <<>>
          /\ memory = _create_initial_state(USER_ID)

NextQueue ==
    \/ \E user_message \in TurnMessages, response \in {"", "llm reply"} :
           UpdateRecentMemoryQueue(user_message, response)
    \/ \E user_message \in TurnMessages : UpdateRecentMemoryQueueRaises(user_message)

SpecQueue == InitQueue /\ [][NextQueue]_vars

\* the choices of the LLM agents in one turn
Detections == {"none"} \cup RiskCategories
FailPoints == {"none", "CrisisDetectionAgent", "reply"}

\* turns in which every store call succeeds
Next ==
    \/ CreateSession
    \/ \E user_message \in TurnMessages, adk_runner \in BOOLEAN,
          detect \in Detections, text \in LlmTexts, fail_at \in FailPoints :
           RunConversation(user_message, adk_runner, detect, text, fail_at, {})

Spec == Init /\ [][Next]_vars

\* The state dicts the code leaves behind and create_risk_profile may be
\* called on: the fresh states of both constructors, the empty dict
\* CustomSupabaseSessionService.create_session stores for initial_state=None,
\* and the states after a flag of the fallback and of the tool.
ToolStates ==
    { _create_initial_state(USER_ID),
      AgentService_create_initial_state("u1@example.org"),
      NoState,
      _process_with_fallback(_create_initial_state(USER_ID), MsgKill).state,
      create_risk_profile(MsgKill, "suicidality",
                          AgentService_create_initial_state("u1@example.org")).state }

\* the crisis detector calls the tool create_risk_profile on the state
CreateRiskProfile(triggering_statement, risk_category) ==
    /\ "risk_profile" \in memory.keys =>
           Len(memory.risk_profile.risk_categories) < MaxFlags
    /\ \E ret \in {create_risk_profile(triggering_statement, risk_category, memory)} :
          /\ memory' = ret.state
          /\ called' = [ fn |-> "create_risk_profile", status |-> ret.status,
                         before |-> memory, statement |-> triggering_statement,
                         risk_category |-> risk_category, reply |-> None ]
    /\ UNCHANGED <<ADK_AVAILABLE, running, api, storeVars, turn, ever_flagged, arrived, start_queue>>

\* CustomAgentRunner._process_with_fallback is called on the state
ProcessWithFallback(user_message) ==
    /\ \E fb \in {_process_with_fallback(memory, user_message)} :
          /\ memory' = fb.state
          /\ called' = [ fn |-> "_process_with_fallback", status |-> "none",
                         before |-> memory, statement |-> user_message,
                         risk_category |-> "", reply |-> fb.reply ]
    /\ UNCHANGED <<ADK_AVAILABLE, running, api, storeVars, turn, ever_flagged, arrived, start_queue>>

\* the if/elif chain of AgentService._process_with_fallback is applied to a
\* message: the response it selects
AgentServiceResponse(user_message) ==
    /\ called' = [ fn |-> "AgentService._process_with_fallback", status |-> "none",
                   before |-> NoState, statement |-> user_message,
                   risk_category |-> "", reply |-> AgentService_response(user_message) ]
    /\ UNCHANGED <<ADK_AVAILABLE, running, api, storeVars, turn, ever_flagged, memory, arrived,
                   start_queue>>

InitTool ==
    /\ ADK_AVAILABLE = TRUE
    /\ chat_sessions = {}
    /\ session_states = {}
    /\ chat_messages = {}
    /\ transformed_messages = {}
    /\ risk_alerts = {}
    /\ api = NoApi
    /\ running = NoRunning
    /\ turn = NoTurn
    /\ ever_flagged = FALSE
    /\ arrived = <<>>
    /\ start_queue = <<>>
    /\ called = NoCall
    /\ memory \in ToolStates

NextTool ==
    \/ \E triggering_statement \in TurnMessages, risk_category \in RiskCategories :
           CreateRiskProfile(triggering_statement, risk_category)
    \/ \E user_message \in Messages : ProcessWithFallback(user_message)
    \/ \E user_message \in Messages : AgentServiceResponse(user_message)

SpecTool == InitTool /\ [][NextTool]_vars

\* The chat_sessions tables a turn with failing store calls starts from: no
\* row of the session, or its row holding a state the code leaves behind.
StartSessions ==
    {{}} \cup {{SessionRow(USER_ID, SESSION_ID, state)} : state \in ToolStates}

InitFaulty ==
    /\ ADK_AVAILABLE \in BOOLEAN
    /\ chat_sessions \in StartSessions
    /\ session_states = {}
    /\ chat_messages = {}
    /\ transformed_messages = {}
    /\ risk_alerts = {}
    /\ api = NoApi
    /\ running = NoRunning
    /\ turn = NoTurn
    /\ ever_flagged = FALSE
    /\ memory = NoState
    /\ arrived = <<>>
    /\ start_queue = <<>>
    /\ called = NoCall

\* one run_conversation call in which the store calls in fails raise
NextFaulty ==
    \/ /\ turn.phase = "idle"
       /\ \E user_message \in TurnMessages, fails \in FailureSets :
             RunConversationLoadFails(user_message, fails)
    \/ /\ turn.phase = "idle"
       /\ \E user_message \in TurnMessages, fails \in FailureSets,
             adk_runner \in BOOLEAN, detect \in Detections,
             text \in LlmTexts \cup {BlankText}, fail_at \in FailPoints :
             RunConversation(user_message, adk_runner, detect, text, fail_at, fails)

SpecFaulty == InitFaulty /\ [][NextFaulty]_vars

\* the store calls of AgentService._process_with_fallback
ServiceOps ==
    {"store_user_message", "create_risk_alert", "store_assistant_message",
     "update_session_state"}

\* AgentService.create_session without a custom runner:
\* _create_manual_session inserts the row
CreateManualSession ==
    /\ ~CreateRaises(chat_sessions, SESSION_ID, FALSE)
    /\ chat_sessions' = chat_sessions \cup
           {SessionRow(USER_ID, SESSION_ID,
                       AgentService_create_initial_state("u1@example.org"))}
    /\ UNCHANGED <<ADK_AVAILABLE, running, api, session_states, chat_messages,
                   transformed_messages, risk_alerts, turn, ever_flagged, queueVars>>

\* AgentService.process_user_query without a custom runner: the whole of
\* AgentService._process_with_fallback; the store calls in fails raise and
\* are logged; the tables, turn and ever_flagged
ProcessUserQueryFallbackFor(user_id, session_id, user_message, fails) ==
    LET risk == AgentService_KeywordGroupOf[user_message] = "risk"
        response == AgentService_response(user_message)
    IN /\ chat_messages' =
              _store_message(
                  _store_message(chat_messages, session_id, user_id, "user",
                                 "store_user_message" \in fails),
                  session_id, user_id, "assistant", "store_assistant_message" \in fails)
       /\ risk_alerts' =
              IF risk
              THEN _create_risk_alert(risk_alerts, user_id, session_id, user_message,
                                      "Suicidality", "create_risk_alert" \in fails)
              ELSE risk_alerts
       /\ chat_sessions' =
              _update_session_state(chat_sessions, session_id, user_id, response,
                                    "update_session_state" \in fails)
       /\ turn' = [NoTurn EXCEPT !.phase = "returned", !.completed = TRUE,
                                 !.user_id = user_id,
                                 !.user_message = user_message,
                                 !.replied_by = "service_fallback",
                                 !.flags = IF risk THEN 1 ELSE 0,
                                 !.reply = response, !.agent_response = response,
                                 !.stored_user_message = user_message,
                                 !.existed = SessionExistsFor(chat_sessions, user_id, session_id),
                                 !.fails = fails]
       /\ ever_flagged' = (ever_flagged \/ risk)
       /\ UNCHANGED <<ADK_AVAILABLE, running, session_states, transformed_messages, queueVars>>

\* process_user_query of the user for the session without a custom runner
ProcessUserQueryFallback(user_message, fails) ==
    /\ ProcessUserQueryFallbackFor(USER_ID, SESSION_ID, user_message, fails)
    /\ UNCHANGED api

\* the service without a custom runner
NextService ==
    \/ CreateManualSession
    \/ \E user_message \in Messages, fails \in SUBSET ServiceOps :
           ProcessUserQueryFallback(user_message, fails)

SpecService == Init /\ [][NextService]_vars

(* api/sessions_router.py, dependencies.py and the session operations of  *)
(* services/agent_service.py                                               *)

\* the user of the test routes
MOCK_USER == "test_user_123"

ApiUsers == {USER_ID, MOCK_USER}

\* the Authorization header of a request: of the user, absent, or one that
\* is no Bearer header or whose token Supabase does not accept
Credentials == {"valid", "missing", "invalid"}

\* dependencies.get_current_user: the status of the rejection (422 of the
\* required header, 401), or 200 and the user
get_current_user(credential) ==
    IF credential = "missing" THEN [status |-> 422, user_id |-> ""]
    ELSE IF credential = "invalid" THEN [status |-> 401, user_id |-> ""]
    ELSE [status |-> 200, user_id |-> USER_ID]

\* the five tables
Tables ==
    [ chat_sessions |-> chat_sessions, session_states |-> session_states,
      chat_messages |-> chat_messages, transformed_messages |-> transformed_messages,
      risk_alerts |-> risk_alerts ]

\* the tables become t
SetTables(t) ==
    /\ chat_sessions' = t.chat_sessions
    /\ session_states' = t.session_states
    /\ chat_messages' = t.chat_messages
    /\ transformed_messages' = t.transformed_messages
    /\ risk_alerts' = t.risk_alerts

\* the delete of the session's row left out
DeleteFromDependentOnly(t, table, user_id, session_id, by_app) ==
    IF table = "chat_sessions" THEN t
    ELSE [t EXCEPT ![table] = {r \in @ : ~(r.session_id = session_id
                                           /\ r.user_id = user_id)}]

\* table(..).delete().eq(..)...execute(): chat_sessions by id and user_id
\* (and app_name when by_app), the other tables by session_id and user_id
DeleteFrom(t, table, user_id, session_id, by_app) ==
    IF table = "chat_sessions"
    THEN [t EXCEPT !.chat_sessions =
              {r \in @ : ~(/\ r.id = session_id
                           /\ r.user_id = user_id
                           /\ (by_app => r.app_name = APP_NAME))}]
    ELSE [t EXCEPT ![table] = {r \in @ : ~(r.session_id = session_id
                                           /\ r.user_id = user_id)}]

RECURSIVE DeleteInOrder(_, _, _, _, _, _)
\* the deletes of a delete function in the order of its statements, up to
\* the one that raises (fail_at; "none": no delete raises); ret is what the
\* function returns
DeleteInOrder(t, order, user_id, session_id, fail_at, by_app) ==
    IF order = <<>> THEN [tables |-> t, ret |-> TRUE]
    ELSE IF Head(order) = fail_at THEN [tables |-> t, ret |-> FALSE]
    ELSE DeleteInOrder(DeleteFrom(t, Head(order), user_id, session_id, by_app),
                       Tail(order), user_id, session_id, fail_at, by_app)

\* CustomSupabaseSessionService.delete_session
delete_session(t, user_id, session_id, fail_at) ==
    DeleteInOrder(t, <<"chat_messages", "session_states", "chat_sessions">>,
                  user_id, session_id, fail_at, TRUE)

\* AgentService._delete_manual_session
_delete_manual_session(t, user_id, session_id, fail_at) ==
    DeleteInOrder(t, <<"chat_messages", "session_states", "transformed_messages",
                       "risk_alerts", "chat_sessions">>,
                  user_id, session_id, fail_at, FALSE)

\* the tables a delete may fail at
DeleteFailPoints == {"none", "session_states", "chat_sessions"}

\* AgentService.delete_session
AgentService_delete_session(custom_runner, t, user_id, session_id, fail_at) ==
    IF custom_runner THEN delete_session(t, user_id, session_id, fail_at)
    ELSE _delete_manual_session(t, user_id, session_id, fail_at)

\* session_exists if it answered True for every id
session_exists_Always(custom_runner, sessions, user_id, session_id) == TRUE

\* AgentService.session_exists
session_exists(custom_runner, sessions, user_id, session_id) ==
    IF custom_runner THEN get_session(sessions, user_id, session_id, FALSE) # {}
    ELSE \E r \in sessions : r.id = session_id /\ r.user_id = user_id

\* AgentService.get_session_state: the dicts returned, the row of get_session
\* with a custom runner and the state column without
get_session_state(custom_runner, sessions, user_id, session_id) ==
    IF custom_runner THEN get_session(sessions, user_id, session_id, FALSE)
    ELSE {r.state : r \in {x \in sessions : x.id = session_id /\ x.user_id = user_id}}

\* the record of a request
Request(route, credential, user_id, status, ran, returned) ==
    [ route |-> route, credential |-> credential, user_id |-> user_id,
      status |-> status, ran |-> ran, returned |-> returned ]

\* the routes that depend on get_current_user
AuthRoutes ==
    {"POST /sessions/", "POST /sessions/{session_id}",
     "GET /sessions/{session_id}/history", "GET /sessions/{session_id}/state",
     "DELETE /sessions/{session_id}"}

\* a request to a route of AuthRoutes whose credential get_current_user
\* rejects
Rejected(route, credential) ==
    /\ get_current_user(credential).status # 200
    /\ api' = [api EXCEPT !.last = Request(route, credential, "",
                                           get_current_user(credential).status,
                                           FALSE, None)]
    /\ UNCHANGED <<ADK_AVAILABLE, running, storeVars, turn, ever_flagged, queueVars>>

\* AgentService.create_session for the id uuid4 draws: the insert of the
\* runner's session service or of _create_manual_session; when it raises
\* (failed) the id is returned all the same
AgentServiceCreateSession(route, credential, user_id, email, status, failed) ==
    /\ ~api.drawn
    /\ chat_sessions' =
           IF failed \/ CreateRaises(chat_sessions, SESSION_ID, FALSE)
           THEN chat_sessions
           ELSE chat_sessions \cup
                {SessionRow(user_id, SESSION_ID, AgentService_create_initial_state(email))}
    /\ api' = [api EXCEPT !.drawn = TRUE,
                          !.deleted = IF chat_sessions' # chat_sessions
                                      THEN @ \ {user_id} ELSE @,
                          !.last = Request(route, credential, user_id, status, FALSE,
                                           SESSION_ID)]
    /\ UNCHANGED <<ADK_AVAILABLE, running, session_states, chat_messages, transformed_messages,
                   risk_alerts, turn, ever_flagged, queueVars>>

\* POST /sessions/ of the authenticated user
CreateSessionRoute(failed) ==
    AgentServiceCreateSession("POST /sessions/", "valid", USER_ID, "u1@example.org",
                              201, failed)

\* POST /test/sessions/: no credential is read
TestCreateSession(failed) ==
    AgentServiceCreateSession("POST /test/sessions/", "none", MOCK_USER,
                              "test@example.com", 200, failed)

\* AgentService.process_user_query: run_conversation of the custom runner,
\* or the service's fallback
\* (detect: the detector's answer when the agents run)
ProcessUserQuery(user_id, user_message, detect) ==
    IF api.custom_runner
    THEN \/ RunConversationFor(user_id, SESSION_ID, user_message, TRUE, detect,
                               "llm reply", "none", {})
         \/ /\ detect = "none"
            /\ RunConversationLoadFailsFor(user_id, SESSION_ID, user_message, {})
    ELSE /\ detect = "none"
         /\ ProcessUserQueryFallbackFor(user_id, SESSION_ID, user_message, {})

\* _get_response_metadata: riskDetected, read from the dict get_session_state
\* returns
_get_response_metadata(custom_runner, sessions, user_id, session_id) ==
    LET got == get_session_state(custom_runner, sessions, user_id, session_id) IN
    IF got = {} THEN FALSE
    ELSE IF custom_runner THEN FALSE
    ELSE \E session_state \in got :
             "at_risk" \in session_state.keys /\ session_state.at_risk = "True"

\* POST /sessions/{session_id} of the authenticated user
PostUserQuery(user_message, detect) ==
    IF ~session_exists(api.custom_runner, chat_sessions, USER_ID, SESSION_ID)
    THEN /\ detect = "none"
         /\ api' = [api EXCEPT !.last = Request("POST /sessions/{session_id}", "valid",
                                                USER_ID, 404, FALSE, None)]
         /\ UNCHANGED <<ADK_AVAILABLE, running, storeVars, turn, ever_flagged, queueVars>>
    ELSE /\ ProcessUserQuery(USER_ID, user_message, detect)
         /\ api' = [api EXCEPT
                      !.deleted = IF turn'.created THEN @ \ {USER_ID} ELSE @,
                      !.last = Request("POST /sessions/{session_id}", "valid", USER_ID,
                                       200, turn'.completed,
                                       [agentMessage |-> turn'.reply,
                                        riskDetected |->
                                            _get_response_metadata(
                                                api.custom_runner, chat_sessions',
                                                USER_ID, SESSION_ID)])]

\* POST /test/sessions/{session_id}: no credential is read and the session
\* is not validated
TestUserQuery(user_message, detect) ==
    /\ ProcessUserQuery(MOCK_USER, user_message, detect)
    /\ api' = [api EXCEPT
                 !.deleted = IF turn'.created THEN @ \ {MOCK_USER} ELSE @,
                 !.last = Request("POST /test/sessions/{session_id}", "none", MOCK_USER,
                                  200, turn'.completed,
                                  [agentMessage |-> turn'.reply, riskDetected |-> FALSE])]

\* GET /sessions/{session_id}/history of the authenticated user:
\* _validate_session_access is given no agent service and checks nothing
GetSessionHistory ==
    /\ api' = [api EXCEPT !.last =
                   Request("GET /sessions/{session_id}/history", "valid", USER_ID, 200,
                           FALSE,
                           {r \in chat_messages : r.session_id = SESSION_ID
                                                  /\ r.user_id = USER_ID})]
    /\ UNCHANGED <<ADK_AVAILABLE, running, storeVars, turn, ever_flagged, queueVars>>

\* GET /sessions/{session_id}/state of the authenticated user: the
\* HTTPException 404 of an empty result is raised inside the try block, whose
\* except Exception clause answers 500
GetSessionState ==
    LET data == {r \in chat_sessions : r.id = SESSION_ID /\ r.user_id = USER_ID} IN
    /\ api' = [api EXCEPT !.last =
                   Request("GET /sessions/{session_id}/state", "valid", USER_ID,
                           IF data = {} THEN 500 ELSE 200, FALSE,
                           {r.state : r \in data})]
    /\ UNCHANGED <<ADK_AVAILABLE, running, storeVars, turn, ever_flagged, queueVars>>

\* DELETE /sessions/{session_id} of the authenticated user: the HTTPException
\* of _validate_session_access (404) and the one of a failed delete (500) are
\* raised inside the try block, whose except Exception clause answers 500
DeleteSessionRoute(fail_at) ==
    IF ~session_exists(api.custom_runner, chat_sessions, USER_ID, SESSION_ID)
    THEN /\ fail_at = "none"
         /\ api' = [api EXCEPT !.last = Request("DELETE /sessions/{session_id}", "valid",
                                                USER_ID, 500, FALSE, None)]
         /\ UNCHANGED <<ADK_AVAILABLE, running, storeVars, turn, ever_flagged, queueVars>>
    ELSE \E out \in {AgentService_delete_session(api.custom_runner, Tables, USER_ID,
                                                 SESSION_ID, fail_at)} :
            /\ SetTables(out.tables)
            /\ api' = [api EXCEPT
                         !.deleted = IF out.ret THEN @ \cup {USER_ID} ELSE @,
                         !.last = Request("DELETE /sessions/{session_id}", "valid",
                                          USER_ID, IF out.ret THEN 200 ELSE 500, FALSE,
                                          out.ret)]
            /\ UNCHANGED <<ADK_AVAILABLE, running, turn, ever_flagged, queueVars>>

\* AgentService.delete_session(user_id, session_id) is called
DeleteSession(user_id, fail_at) ==
    \E out \in {AgentService_delete_session(api.custom_runner, Tables, user_id,
                                            SESSION_ID, fail_at)} :
       /\ SetTables(out.tables)
       /\ api' = [api EXCEPT
                    !.deleted = IF out.ret THEN @ \cup {user_id} ELSE @,
                    !.last = Request("delete_session", "none", user_id, 0, FALSE,
                                     out.ret)]
       /\ UNCHANGED <<ADK_AVAILABLE, running, turn, ever_flagged, queueVars>>

\* the service with or without a custom runner; a custom runner needs the ADK
InitSessions ==
    /\ ADK_AVAILABLE \in BOOLEAN
    /\ chat_sessions = {}
    /\ session_states = {}
    /\ chat_messages = {}
    /\ transformed_messages = {}
    /\ risk_alerts = {}
    /\ api \in {[NoApi EXCEPT !.custom_runner = c] : c \in BOOLEAN}
    /\ api.custom_runner => ADK_AVAILABLE
    /\ running = NoRunning
    /\ turn = NoTurn
    /\ ever_flagged = FALSE
    /\ memory = NoState
    /\ arrived = <<>>
    /\ start_queue = <<>>
    /\ called = NoCall

\* the messages and the detector's answers of the requests
ApiMessages == {MsgHi, MsgKill}
ApiDetections == {"none", "suicidality"}

NextSessions ==
    \/ \E route \in AuthRoutes, credential \in Credentials : Rejected(route, credential)
    \/ \E failed \in BOOLEAN : CreateSessionRoute(failed)
    \/ \E failed \in BOOLEAN : TestCreateSession(failed)
    \/ \E user_message \in ApiMessages, detect \in ApiDetections :
           PostUserQuery(user_message, detect)
    \/ \E user_message \in ApiMessages, detect \in ApiDetections :
           TestUserQuery(user_message, detect)
    \/ GetSessionHistory
    \/ GetSessionState
    \/ \E fail_at \in DeleteFailPoints : DeleteSessionRoute(fail_at)
    \/ \E user_id \in ApiUsers, fail_at \in DeleteFailPoints :
           DeleteSession(user_id, fail_at)

SpecSessions == InitSessions /\ [][NextSessions]_vars

\* the failures of a turn's state writes: none, or exactly one of the upsert
\* of session_states and the update of chat_sessions raises
StateWriteFailures == {{}, {"store_state"}, {"update_session_state"}}

\* sequential turns in which at most one of the two state writes fails; the
\* agents, when they run, end with a reply
NextLossy ==
    \/ CreateSession
    \/ \E user_message \in ApiMessages, adk_runner \in BOOLEAN,
          detect \in ApiDetections, text \in LlmTexts, fails \in StateWriteFailures :
           RunConversation(user_message, adk_runner, detect, text, "none", fails)

SpecLossy == Init /\ [][NextLossy]_vars

\* Two run_conversation calls of the user on the session.  Each call awaits
\* get_session, _process_with_agent, after_agent_response and
\* update_session_state in turn; nothing in run_conversation or in the store
\* calls holds a lock or compares a version, so the calls interleave at the
\* awaits.

\* call c of run_conversation up to the await of _process_with_agent: the
\* session is loaded (created first when absent) and before_agent_call merges
\* the session_states row
LoadSession(c, user_message) ==
    /\ running.call[c].phase = "idle"
    /\ LET got == get_session(chat_sessions, USER_ID, SESSION_ID, FALSE)
           raises == CreateRaises(chat_sessions, SESSION_ID, FALSE)
           sessions1 == IF got = {} /\ ~raises
                        THEN chat_sessions \cup
                             {SessionRow(USER_ID, SESSION_ID,
                                         _create_initial_state(USER_ID))}
                        ELSE chat_sessions
           session_data == get_session(sessions1, USER_ID, SESSION_ID, FALSE)
       IN /\ session_data # {}
          /\ chat_sessions' = sessions1
          /\ running' = [running EXCEPT !.call[c] =
                 [Idle EXCEPT
                    !.phase = "awaiting", !.user_message = user_message,
                    !.pre = before_agent_call((CHOOSE r \in session_data : TRUE).state,
                                              session_states, SESSION_ID, USER_ID,
                                              FALSE)]]
    /\ UNCHANGED <<ADK_AVAILABLE, api, session_states, chat_messages,
                   transformed_messages, risk_alerts, turn, ever_flagged, queueVars>>

\* call c: _process_with_agent returns and after_agent_response stores the
\* state and the turn
StoreTurn(c, detect, text) ==
    /\ running.call[c].phase = "awaiting"
    /\ ChoicesRead(running.call[c].pre, TRUE, detect, text, "none")
    /\ \E out \in {_process_with_agent(
                        running.call[c].pre,
                        _create_callback_context(running.call[c].user_message),
                        running.call[c].user_message, TRUE, detect, text, "none")} :
          /\ WithinBounds(out.state)
          /\ session_states' =
                 store_state(session_states, SESSION_ID, USER_ID, out.state, FALSE)
          /\ chat_messages' =
                 _store_single_message(
                     _store_single_message(chat_messages, SESSION_ID, USER_ID, "user",
                                           FALSE),
                     SESSION_ID, USER_ID, "assistant", FALSE)
          /\ transformed_messages' =
                 store_transformed_message(
                     transformed_messages, SESSION_ID, USER_ID,
                     IF "at_risk" \in out.state.keys THEN out.state.at_risk ELSE "False",
                     FALSE)
          /\ running' = [running EXCEPT !.call[c].phase = "stored",
                                        !.call[c].post = out.state,
                                        !.call[c].flags = out.flags,
                                        !.last_store = c]
    /\ UNCHANGED <<ADK_AVAILABLE, api, chat_sessions, risk_alerts, turn, ever_flagged,
                   queueVars>>

\* call c: update_session_state writes the context state and the call
\* returns
UpdateSessionState(c) ==
    /\ running.call[c].phase = "stored"
    /\ chat_sessions' = update_session_state(chat_sessions, USER_ID, SESSION_ID,
                                             running.call[c].post, FALSE)
    /\ running' = [running EXCEPT !.call[c].phase = "done", !.last_update = c]
    /\ UNCHANGED <<ADK_AVAILABLE, api, session_states, chat_messages,
                   transformed_messages, risk_alerts, turn, ever_flagged, queueVars>>

NextRace ==
    \/ \E c \in Calls, user_message \in TurnMessages : LoadSession(c, user_message)
    \/ \E c \in Calls, detect \in Detections, text \in LlmTexts :
           StoreTurn(c, detect, text)
    \/ \E c \in Calls : UpdateSessionState(c)

SpecRace == Init /\ [][NextRace]_vars

\* delete_session of the user while a run_conversation call on the session
\* is in flight, served by the custom runner's session service
InitDeleteRace == InitSessions /\ api.custom_runner

NextDeleteRace ==
    \/ NextRace
    \/ /\ \E c \in Calls : running.call[c].phase \in {"awaiting", "stored"}
       /\ \E fail_at \in DeleteFailPoints : DeleteSession(USER_ID, fail_at)

SpecDeleteRace == InitDeleteRace /\ [][NextDeleteRace]_vars

\* run_conversation is called: up to the await of the strategy.  With the
\* ADK runner the call is inside "async for event in agent.run_async(...)",
\* which no timeout bounds; without it the fallback is computed next.
ReceiveMessage(user_message, adk_runner) ==
    /\ turn.phase \in {"idle", "returned"}
    /\ turn' = [NoTurn EXCEPT
                   !.phase = IF adk_runner /\ ADK_AVAILABLE THEN "awaiting"
                             ELSE "received",
                   !.user_message = user_message]
    /\ UNCHANGED <<ADK_AVAILABLE, running, api, storeVars, ever_flagged, queueVars>>

\* the agents' LLM calls end (with events, or raising) and run_conversation
\* runs to its return
AgentAnswers(detect, text, fail_at) ==
    /\ turn.phase = "awaiting"
    /\ RunConversation(turn.user_message, TRUE, detect, text, fail_at, {})

\* run_conversation runs to its return through _process_with_fallback
ProcessFallback ==
    /\ turn.phase = "received"
    /\ RunConversation(turn.user_message, FALSE, "none", NoText, "none", {})

NextLive ==
    \/ CreateSession
    \/ \E user_message \in TurnMessages, adk_runner \in BOOLEAN :
           ReceiveMessage(user_message, adk_runner)
    \/ \E detect \in Detections, text \in LlmTexts, fail_at \in FailPoints :
           AgentAnswers(detect, text, fail_at)
    \/ ProcessFallback

\* The event loop runs the orchestrator's own code; whether the agents' LLM
\* calls ever end is up to the external service.
SpecLive == Init /\ [][NextLive]_vars /\ WF_vars(ProcessFallback)

----------------------------------------------------------------------------
(* Properties *)

\* the session states that exist: the stored ones and the one the last
\* completed turn ended with
SessionStates ==
    {r.state : r \in chat_sessions} \cup {r.state : r \in session_states}
    \cup (IF turn.completed THEN {turn.post} ELSE {})

\* risk_profile.status of a state, None when the key is absent
StatusOf(state) ==
    IF "status" \in state.risk_profile.keys THEN state.risk_profile.status ELSE None

\* risk_profile.verdict of a state, None when the key is absent
VerdictOf(state) ==
    IF "verdict" \in state.risk_profile.keys THEN state.risk_profile.verdict ELSE None

IsPrefix(s, t) == Len(s) <= Len(t) /\ SubSeq(t, 1, Len(s)) = s

\* the last n elements of s
Suffix(s, n) == [i \in 1..n |-> s[Len(s) - n + i]]

Min(a, b) == IF a <= b THEN a ELSE b

\* the two turn records of a turn
TurnPair(user_message, reply) ==
    << [role |-> "user", text |-> user_message], [role |-> "model", text |-> reply] >>

\* recent_memory_queue of a state dict, empty when the key is absent
QueueOf(state) ==
    IF "recent_memory_queue" \in state.keys THEN state.recent_memory_queue ELSE <<>>

\* C1: once some turn of the session has flagged a risk-qualifying
\* statement, risk_profile.status is NO_RISK in no session state: not in the
\* state that turn ends with and not in any later one.
C1_StatusLeavesNoRisk ==
    ever_flagged => \A s \in SessionStates : StatusOf(s) # "NO_RISK"

\* C2: in every session state at_risk is "True" exactly when
\* risk_profile.status is neither NO_RISK nor CLEARED, and "False" otherwise.
C2_AtRiskMirrorsStatus ==
    \A s \in SessionStates :
        /\ s.at_risk \in {"True", "False"}
        /\ s.at_risk = "True" <=> StatusOf(s) \notin {"NO_RISK", "CLEARED"}

\* C3: in every session state, the freshly created one included,
\* risk_profile.verdict has the value of risk_profile.status.
C3_VerdictEqualsStatus ==
    \A s \in SessionStates : VerdictOf(s) = StatusOf(s)

\* C4: risk_categories is append-only: the list a turn starts with is a
\* prefix of the list it ends with, and the turn adds one entry per flag.
C4_RiskCategoriesAppendOnly ==
    turn.completed =>
        /\ IsPrefix(turn.pre.risk_profile.risk_categories,
                    turn.post.risk_profile.risk_categories)
        /\ Len(turn.post.risk_profile.risk_categories)
               = Len(turn.pre.risk_profile.risk_categories) + turn.flags

\* a turn whose reply was produced by one of RootAgent's reply agents
AnsweredByAgent(t) ==
    t.completed /\ t.replied_by \in {"PersonaAgent", "ContextCollectionAgent"}

C6_AtRiskTurnEscalates ==
    (turn.completed /\ turn.pre.at_risk = "True")
        => turn.replied_by = "ContextCollectionAgent"

\* C7: every completed turn that starts while the session is at risk
\* appends the user turn and the produced reply, in this order, to
\* assessment_history and keeps the earlier entries.
C7_AssessmentHistoryGrowsByTwo ==
    (turn.completed /\ turn.pre.at_risk = "True") =>
        /\ "assessment_history" \in turn.post.risk_profile.keys
        /\ Len(turn.post.risk_profile.assessment_history)
               = Len(turn.pre.risk_profile.assessment_history) + 2
        /\ turn.post.risk_profile.assessment_history
               = turn.pre.risk_profile.assessment_history
                   \o TurnPair(turn.user_message, turn.reply)

\* C8: from the empty queue, after any number of update_recent_memory_queue
\* calls the queue has even length, at most 6 entries, and alternates user
\* entry, model entry.
C8_QueueEvenBoundedAlternating ==
    start_queue = <<>> =>
        LET q == QueueOf(memory) IN
        /\ Len(q) % 2 = 0
        /\ Len(q) <= 6
        /\ \A i \in 1..Len(q) : q[i].role = (IF i % 2 = 1 THEN "user" ELSE "model")

\* C8 witness: four appends from the empty queue, the queue is full.
C8_Witness ==
    start_queue = <<>> /\ Len(arrived) = 8 /\ Len(QueueOf(memory)) = 6

\* C9: the queue after an append is the old queue followed by the pair, cut
\* to its last 6 entries when longer; from the empty queue it holds the last
\* min(n, 3) pairs of the n that arrived, in arrival order, and what was
\* discarded is a whole number of oldest pairs.
C9_QueueFifoTrim ==
    LET q == QueueOf(memory)
        all == start_queue \o arrived
        n == Len(arrived) \div 2
    IN /\ Len(arrived) > 0 =>
              /\ q = (IF Len(all) > 6 THEN Suffix(all, 6) ELSE all)
              /\ (Len(all) - Len(q)) % 2 = 0
              /\ all = SubSeq(all, 1, Len(all) - Len(q)) \o q
       /\ start_queue = <<>> =>
              q = Suffix(arrived, 2 * Min(n, 3))

\* C9 witness: four appends from the empty queue, the first pair is gone
\* and the second pair is the oldest one kept.
C9_Witness ==
    /\ start_queue = <<>>
    /\ Len(arrived) = 8
    /\ arrived[1].text # arrived[3].text
    /\ QueueOf(memory)[1] = arrived[3]
    /\ QueueOf(memory)[6] = arrived[8]

\* C10: every completed turn appends its (user message, reply) pair to
\* recent_memory_queue before the state is persisted.
C10_TurnAppendedToQueue ==
    turn.completed =>
        LET q == QueueOf(turn.post) IN
        /\ Len(q) >= 2
        /\ SubSeq(q, Len(q) - 1, Len(q)) = TurnPair(turn.user_message, turn.reply)
        /\ \A r \in chat_sessions : QueueOf(r.state) = q

\* C11: a turn in which the primary strategy failed (it raised, or it ended
\* with no final text of the reply agent) returns the reply the deterministic
\* fallback produces for the message, not an error.
C11_PrimaryFailureFallsBack ==
    (turn.completed /\ turn.primary \in {"raised", "no_text"}) =>
        /\ turn.reply = _process_with_fallback(turn.pre, turn.user_message).reply
        /\ turn.reply # REPLY_APOLOGY

\* C12: every turn eventually returns a reply, also when the agents' LLM
\* calls never end.
C12_TurnEventuallyReturns ==
    (turn.phase \in {"received", "awaiting"}) ~> (turn.phase = "returned")

\* at_risk of a state dict, None when the key is absent
AtRiskOf(state) == IF "at_risk" \in state.keys THEN state.at_risk ELSE None

C14_ReplySurvivesPersistenceFailures ==
    turn.completed =>
        /\ turn.reply = turn.agent_response
        /\ turn.reply # REPLY_APOLOGY

\* C14 witness: a turn in which every persistence step failed and the
\* strategy's reply was returned.
C14_Witness ==
    /\ turn.completed
    /\ PersistenceOps \subseteq turn.fails
    /\ turn.writes = <<>>
    /\ turn.reply = REPLY_CRISIS

\* the session could not be loaded: the read of a stored session failed, or
\* the session was absent and its creation or the read after it failed
LoadFailed(t) ==
    IF t.existed THEN "get_session" \in t.fails
    ELSE "create_session" \in t.fails \/ "get_session_after_create" \in t.fails

\* C15: a run_conversation call that could not load the session returns the
\* apology, and no strategy ran: no agent, no fallback, no flag, nothing
\* written by the turn.
C15_LoadFailureApologizes ==
    (turn.phase = "returned" /\ LoadFailed(turn)) =>
        /\ turn.reply = REPLY_APOLOGY
        /\ ~turn.completed
        /\ turn.replied_by = "none" /\ turn.agents = <<>> /\ turn.flags = 0
        /\ session_states = {} /\ chat_messages = {} /\ transformed_messages = {}

\* C15 witness: the read of a stored session failed and the apology was
\* returned.
C15_Witness ==
    /\ turn.phase = "returned"
    /\ turn.existed /\ "get_session" \in turn.fails
    /\ turn.reply = REPLY_APOLOGY

\* message contains a keyword of the group, whatever the case of its
\* letters: some stretch of the message reads as the keyword once lowered
MatchesGroup(keywords, message) ==
    \E k \in keywords :
        \E i \in 1..Len(message) :
            /\ i + Len(k) - 1 <= Len(message)
            /\ \A j \in 1..Len(k) : LowerChar(message[i + j - 1]) = k[j]

\* the reply of the highest-priority group the message matches: self-harm,
\* greeting, sadness, anxiety, else the default
ReplyByPriority(message) ==
    IF MatchesGroup(risk_keywords, message) THEN REPLY_CRISIS
    ELSE IF MatchesGroup(greeting_keywords, message) THEN REPLY_GREETING
    ELSE IF MatchesGroup(feeling_keywords, message) THEN REPLY_SAD
    ELSE IF MatchesGroup(anxious_keywords, message) THEN REPLY_ANXIOUS
    ELSE REPLY_DEFAULT

\* C16: the fallback's reply to a message is that of the highest-priority
\* keyword group the message contains a keyword of, case ignored; the state
\* it is called on plays no part.
C16_FallbackReplyByPriority ==
    /\ called.fn = "_process_with_fallback" =>
           called.reply = ReplyByPriority(called.statement)
    /\ called.fn = "AgentService._process_with_fallback" =>
           called.reply = ReplyByPriority(called.statement)

\* C16 witness: a message with a greeting keyword before a self-harm keyword
\* in capitals got the crisis reply.
C16_Witness ==
    /\ called.fn \in {"_process_with_fallback", "AgentService._process_with_fallback"}
    /\ called.statement = MsgHiWantToDie
    /\ called.reply = REPLY_CRISIS

\* the state column of the session's row holds the flag of a self-harm risk
RiskPersisted(state) ==
    /\ "at_risk" \in state.keys
    /\ state.at_risk = "True"
    /\ "risk_profile" \in state.keys
    /\ "risk_categories" \in state.risk_profile.keys
    /\ \E i \in 1..Len(state.risk_profile.risk_categories) :
           state.risk_profile.risk_categories[i] = "Suicidality"

\* C17: after a turn that a deterministic fallback (the runner's or the
\* service's) answered and whose message holds a self-harm keyword, the
\* persisted state of the session has at_risk "True" and "Suicidality" among
\* risk_profile.risk_categories.
C17_FallbackRiskPersisted ==
    ( /\ turn.completed
      /\ turn.replied_by \in {"fallback", "service_fallback"}
      /\ MatchesGroup(risk_keywords, turn.user_message)
      /\ turn.fails = {} )
        => \A r \in chat_sessions : r.id = SESSION_ID => RiskPersisted(r.state)

\* the part of C17 about the runner's fallback alone
RunnerFallbackRiskPersisted ==
    ( /\ turn.completed
      /\ turn.replied_by = "fallback"
      /\ MatchesGroup(risk_keywords, turn.user_message) )
        => /\ \E r \in chat_sessions : r.id = SESSION_ID
           /\ \A r \in chat_sessions : r.id = SESSION_ID => RiskPersisted(r.state)

\* a completed turn of the runner in which no risk was flagged
NoFlagTurn(t) == t.completed /\ t.replied_by # "service_fallback" /\ t.flags = 0

\* risk_profile with its assessment_history left out of the comparison
WithoutHistory(risk_profile) == [risk_profile EXCEPT !.assessment_history = <<>>]

\* C18 as stated: a turn in which no risk is flagged leaves at_risk and every
\* field of risk_profile unchanged; a greeting on a fresh session leaves the
\* status NO_RISK.
C18_NoFlagLeavesRiskProfile ==
    NoFlagTurn(turn) =>
        /\ ("at_risk" \in turn.post.keys) = ("at_risk" \in turn.pre.keys)
        /\ AtRiskOf(turn.post) = AtRiskOf(turn.pre)
        /\ ("risk_profile" \in turn.post.keys) = ("risk_profile" \in turn.pre.keys)
        /\ turn.post.risk_profile = turn.pre.risk_profile
        /\ (turn.pre.risk_profile.status = "NO_RISK"
               => turn.post.risk_profile.status = "NO_RISK")

\* C18 amended: a turn in which no risk is flagged leaves at_risk and every
\* field of risk_profile but assessment_history unchanged, and
\* assessment_history too when the session is not at risk as the turn starts
\* (then it can only grow at its end); a greeting on a fresh session leaves
\* the status NO_RISK.
C18_NoFlagLeavesRiskState ==
    NoFlagTurn(turn) =>
        /\ ("at_risk" \in turn.post.keys) = ("at_risk" \in turn.pre.keys)
        /\ AtRiskOf(turn.post) = AtRiskOf(turn.pre)
        /\ ("risk_profile" \in turn.post.keys) = ("risk_profile" \in turn.pre.keys)
        /\ WithoutHistory(turn.post.risk_profile) = WithoutHistory(turn.pre.risk_profile)
        /\ IsPrefix(turn.pre.risk_profile.assessment_history,
                    turn.post.risk_profile.assessment_history)
        /\ (AtRiskOf(turn.pre) # "True"
               => turn.post.risk_profile.assessment_history
                      = turn.pre.risk_profile.assessment_history)
        /\ (turn.pre.risk_profile.status = "NO_RISK"
               => turn.post.risk_profile.status = "NO_RISK")

\* C18 witness: a turn with no flag on a session at risk added to
\* assessment_history.
C18_Witness ==
    /\ NoFlagTurn(turn)
    /\ AtRiskOf(turn.pre) = "True"
    /\ Len(turn.post.risk_profile.assessment_history)
           > Len(turn.pre.risk_profile.assessment_history)

\* C19: no strategy mutates the user profile: after every turn of the runner,
\* answered by the agents (flagging tool, assessment-history callback) or by
\* the fallback, user_profile of the state is the one the turn started with.
C19_UserProfileUnchanged ==
    (turn.completed /\ turn.replied_by # "service_fallback") =>
        /\ ("user_profile" \in turn.post.keys) = ("user_profile" \in turn.pre.keys)
        /\ turn.post.user_profile = turn.pre.user_profile

\* C19 witness: a turn in which the fallback took over from the agents and
\* raised a flag, so that state was written, on a session with a user profile.
C19_Witness ==
    /\ turn.completed
    /\ turn.replied_by = "fallback"
    /\ turn.primary = "raised"
    /\ turn.flags > 0
    /\ turn.post # turn.pre
    /\ "user_profile" \in turn.pre.keys

\* C20: round trip: after create_session succeeded and before any turn,
\* get_session of the user and the id returns a session whose state has
\* at_risk "False" and risk_profile.status NO_RISK.
C20_CreateGetRoundTrip ==
    (turn = NoTurn /\ \E r \in chat_sessions : r.id = SESSION_ID) =>
        /\ get_session(chat_sessions, USER_ID, SESSION_ID, FALSE) # {}
        /\ \A r \in get_session(chat_sessions, USER_ID, SESSION_ID, FALSE) :
               /\ "at_risk" \in r.state.keys
               /\ r.state.at_risk = "False"
               /\ "risk_profile" \in r.state.keys
               /\ "status" \in r.state.risk_profile.keys
               /\ r.state.risk_profile.status = "NO_RISK"

\* C20 witness: create_session has inserted the row, no turn has run, and
\* get_session returns it.
C20_Witness ==
    /\ turn = NoTurn
    /\ \E r \in get_session(chat_sessions, USER_ID, SESSION_ID, FALSE) :
           r.state = AgentService_create_initial_state("u1@example.org")

DeleteReturnedTrue ==
    \/ api.last.route = "delete_session" /\ api.last.returned
    \/ api.last.route = "DELETE /sessions/{session_id}" /\ api.last.status = 200

\* the records of the four dependent tables that carry the session id and
\* the user id
DependentRecords(user_id, session_id) ==
    {r \in chat_messages \cup session_states \cup transformed_messages
           \cup risk_alerts :
        r.session_id = session_id /\ r.user_id = user_id}

\* C22: after delete_session of a user for the session has returned True,
\* through the route or a direct call, with or without custom runner, no
\* chat_messages, session_states, transformed_messages or risk_alerts record
\* of that user with that session id is in the store.
C22_DeleteCascades ==
    DeleteReturnedTrue => DependentRecords(api.last.user_id, SESSION_ID) = {}

\* the records of a user in the five tables
RecordsOf(t, user_id) ==
    [ table \in DOMAIN t |-> {r \in t[table] : r.user_id = user_id} ]

\* C23: sessions are isolated by owner.  For users A # B, a step made with
\* A's user id (a route called by A, delete_session or run_conversation of A)
\* leaves every record of B in the five tables as it was; what get_session,
\* get_session_state and the history route hand to A are rows of A only, and
\* nothing while B owns the session; run_conversation of A does not process
\* a turn on a session B owns; a row of chat_sessions that stays keeps its
\* user id.
C23_OwnerIsolation ==
    [][ /\ \A A \in ApiUsers : \A B \in ApiUsers \ {A} :
            /\ api'.last.user_id = A =>
                   RecordsOf(Tables, B)' = RecordsOf(Tables, B)
            /\ \A r \in get_session(chat_sessions', A, SESSION_ID, FALSE) :
                   r.user_id = A
            /\ SessionExistsFor(chat_sessions', B, SESSION_ID) =>
                   /\ get_session(chat_sessions', A, SESSION_ID, FALSE) = {}
                   /\ ~session_exists(api.custom_runner, chat_sessions', A, SESSION_ID)
                   /\ get_session_state(api.custom_runner, chat_sessions', A,
                                        SESSION_ID) = {}
            /\ (api'.last.user_id = A
                /\ api'.last.route = "GET /sessions/{session_id}/history") =>
                   \A r \in api'.last.returned : r.user_id = A
            /\ (api'.last.user_id = A /\ api.custom_runner
                /\ SessionExistsFor(chat_sessions, B, SESSION_ID)) =>
                   ~api'.last.ran
        /\ \A r \in chat_sessions, r2 \in chat_sessions' :
               r.id = r2.id => r.user_id = r2.user_id
      ]_vars

\* the authenticated user called delete_session, which returned True, on the
\* session the test user owns and has written a turn to; the test user's
\* turn before had been answered on the authenticated user's session
C23_Witness ==
    /\ api.last.route = "delete_session"
    /\ api.last.user_id = USER_ID
    /\ api.last.returned
    /\ SessionExistsFor(chat_sessions, MOCK_USER, SESSION_ID)
    /\ \E r \in chat_messages : r.user_id = MOCK_USER
    /\ \E r \in session_states : r.user_id = MOCK_USER

\* C24: POST /sessions/{session_id} of an authenticated user for a session
\* that is absent or owned by another user answers 404, runs no strategy and
\* leaves the five tables and the turn as they were.
C24_NotFoundNoSideEffect ==
    [][ (/\ api'.last.route = "POST /sessions/{session_id}"
         /\ api'.last.credential = "valid"
         /\ ~SessionExistsFor(chat_sessions, USER_ID, SESSION_ID)) =>
            /\ api'.last.status = 404
            /\ ~api'.last.ran
            /\ Tables' = Tables
            /\ turn' = turn
      ]_vars

\* the request was answered 404 while the test user owns the session and has
\* a stored turn on it
C24_Witness ==
    /\ api.last.route = "POST /sessions/{session_id}"
    /\ api.last.status = 404
    /\ SessionExistsFor(chat_sessions, MOCK_USER, SESSION_ID)
    /\ \E r \in chat_messages : r.user_id = MOCK_USER

\* the last request was one of state, history or delete of the authenticated
\* user
SessionScopedRoutes ==
    {"GET /sessions/{session_id}/state", "GET /sessions/{session_id}/history",
     "DELETE /sessions/{session_id}"}

\* C25: GET /sessions/{session_id}/state, GET /sessions/{session_id}/history
\* and DELETE /sessions/{session_id}, called by an authenticated user for a
\* session that is absent or owned by another user, answer 404.
C25_NotFoundIs404 ==
    [][ (/\ api'.last.route \in SessionScopedRoutes
         /\ api'.last.credential = "valid"
         /\ ~SessionExistsFor(chat_sessions, USER_ID, SESSION_ID)) =>
            api'.last.status = 404
      ]_vars

\* the routes that create a session or process a message
TurnRoutes ==
    {"POST /sessions/", "POST /sessions/{session_id}", "POST /test/sessions/",
     "POST /test/sessions/{session_id}"}

\* C26: a request without a valid credential to a route that creates a
\* session or processes a message runs no strategy and leaves the five tables
\* as they were.
C26_NoTurnUnauthenticated ==
    [][ (/\ api'.last.route \in TurnRoutes
         /\ api'.last.credential # "valid") =>
            /\ ~api'.last.ran
            /\ Tables' = Tables
            /\ turn' = turn
      ]_vars

\* the state column of the user's row of the session in chat_sessions, and
\* the state of the user's row in session_states
PersistedStates ==
    [ chat_sessions |-> {r.state : r \in get_session(chat_sessions, USER_ID,
                                                     SESSION_ID, FALSE)},
      session_states |-> _load_existing_state(session_states, SESSION_ID, USER_ID,
                                              FALSE) ]

BothDone == \A c \in Calls : running.call[c].phase = "done"

\* C27: once two run_conversation calls on the session have both returned,
\* the state persisted in chat_sessions is the state of the call whose
\* update_session_state ran last and the state in session_states is the one
\* of the call whose store_state ran last: the other call's state is not
\* merged in.
C27_LastWriteWins ==
    BothDone =>
        /\ PersistedStates.chat_sessions = {running.call[running.last_update].post}
        /\ PersistedStates.session_states = {running.call[running.last_store].post}

\* both calls read the same pre-turn state, one of them flagged a risk and
\* ended with at_risk "True", and the persisted state has at_risk "False"
C27_Witness ==
    /\ BothDone
    /\ running.call[1].pre = running.call[2].pre
    /\ running.call[1].flags > 0
    /\ running.call[1].post.at_risk = "True"
    /\ \A s \in PersistedStates.chat_sessions \cup PersistedStates.session_states :
           s.at_risk = "False"
    /\ PersistedStates.chat_sessions # {}
    /\ PersistedStates.session_states # {}

\* C28: a run_conversation call that found no session of (user_id,
\* session_id) and created one leaves a row owned by that user, and the state
\* the turn was processed on is the fresh default: at_risk "False", status
\* NO_RISK, empty risk_categories and assessment_history, and a
\* recent_memory_queue that is present and empty.
C28_CreatedFreshDefault ==
    (turn.completed /\ turn.created) =>
        /\ SessionExistsFor(chat_sessions, turn.user_id, SESSION_ID)
        /\ turn.pre.at_risk = "False"
        /\ StatusOf(turn.pre) = "NO_RISK"
        /\ turn.pre.risk_profile.risk_categories = <<>>
        /\ turn.pre.risk_profile.assessment_history = <<>>
        /\ "recent_memory_queue" \in turn.pre.keys
        /\ turn.pre.recent_memory_queue = <<>>

\* the order of the writes the claim states
WriteOrder ==
    << [table |-> "session_states", role |-> None],
       [table |-> "chat_messages", role |-> "user"],
       [table |-> "chat_messages", role |-> "assistant"],
       [table |-> "transformed_messages", role |-> None],
       [table |-> "chat_sessions", role |-> None] >>

\* w is among the writes of turn record t
Wrote(t, table) == \E i \in DOMAIN t.writes : t.writes[i].table = table

\* C29: within one run_conversation call the writes of the turn are carried
\* out after the strategy produced the reply and in the order session_states
\* upsert, user message, assistant message, transformed message, chat_sessions
\* update (a write whose store call raises is left out).  A call in which no
\* reply was produced writes nothing of the turn; the only change made before
\* the strategy runs is the insert of the row of a session that was absent.
C29_WritesAfterReplyInOrder ==
    [][ /\ turn'.writes =
               SelectSeq(WriteOrder,
                         LAMBDA w : \E i \in DOMAIN turn'.writes : turn'.writes[i] = w)
        /\ (turn'.completed /\ turn'.fails \cap PersistenceOps = {}) =>
               turn'.writes = WriteOrder
        /\ turn'.writes # <<>> => turn'.completed /\ turn'.agent_response # None
        /\ session_states' # session_states => Wrote(turn', "session_states")
        /\ chat_messages' # chat_messages => Wrote(turn', "chat_messages")
        /\ transformed_messages' # transformed_messages =>
               Wrote(turn', "transformed_messages")
        /\ chat_sessions' # chat_sessions =>
               \/ Wrote(turn', "chat_sessions")
               \/ /\ ~turn'.existed
                  /\ chat_sessions' = chat_sessions \cup
                         {SessionRow(USER_ID, SESSION_ID, _create_initial_state(USER_ID))}
      ]_vars

\* a turn on a session that was absent, with no failing store call: the row
\* was inserted before the strategy ran and the five writes followed the reply
C29_Witness ==
    /\ turn.completed
    /\ turn.created
    /\ turn.fails = {}
    /\ turn.writes = WriteOrder
    /\ \E r \in session_states : r.state = turn.post
    /\ \E r \in chat_sessions : r.state = turn.post

\* the session's row exists and at_risk is "True" in every persisted state
\* of the session
PersistedAtRisk ==
    /\ PersistedStates.chat_sessions # {}
    /\ \A s \in PersistedStates.chat_sessions \cup PersistedStates.session_states :
           AtRiskReadable(s) /\ s.at_risk = "True"

\* C30: in sequential turns without store failures, primary, fallback or
\* mixed, once the persisted at_risk is "True" every later turn starts with
\* at_risk "True", ends with at_risk "True" and leaves it persisted.
C30_FlagNeverCleared ==
    [][ PersistedAtRisk =>
            /\ PersistedAtRisk'
            /\ turn'.completed
            /\ turn'.pre.at_risk = "True"
            /\ turn'.post.at_risk = "True"
      ]_vars

\* a turn answered by the fallback that flagged nothing, on a session whose
\* persisted at_risk was "True" before and is "True" after
C30_Witness ==
    /\ PersistedAtRisk
    /\ turn.completed
    /\ turn.pre.at_risk = "True"
    /\ turn.flags = 0
    /\ turn.replied_by = "fallback"
    /\ turn.user_message = MsgHi

\* C31: a turn on the session starts from the state the previous completed
\* turn ended with, also when one of that turn's two state writes (upsert of
\* session_states, update of chat_sessions) failed.
C31_TurnStartsFromLastState ==
    [][ (turn.completed /\ turn'.completed
         /\ SessionExists(chat_sessions)) => turn'.pre = turn.post
      ]_vars

\* C32: in the answer 200 of POST /sessions/{session_id}, riskDetected is
\* true exactly when the state of the session's row persisted after the turn
\* has at_risk "True", with the custom runner and with the service fallback.
C32_RiskDetectedMirrorsState ==
    (api.last.route = "POST /sessions/{session_id}" /\ api.last.status = 200) =>
        (api.last.returned.riskDetected
            <=> \E s \in PersistedStates.chat_sessions :
                    AtRiskReadable(s) /\ s.at_risk = "True")

\* C33: the reply run_conversation returns is never empty and never white
\* space only, whatever the agents yield and whichever store call fails.
C33_ReplyNonEmpty ==
    turn.phase = "returned" => turn.reply \notin {"", BlankText, NoText, None}

\* the texts the crisis detector answers with
DetectorTexts == {"True", "False"}

\* C34: the reply of a turn answered on the primary path is never the crisis
\* detector's output; when the reply agent yields no final text, the reply is
\* the default reply of _extract_final_response.
C34_ReplyNotDetectorOutput ==
    AnsweredByAgent(turn) =>
        /\ turn.reply \notin DetectorTexts
        /\ turn.primary = "no_text" => turn.reply = REPLY_NO_FINAL

\* C35: when POST /sessions/ has answered 201 with the id create_session
\* returned, the session of that id owned by the user is in the store and
\* session_exists(user, id) is True.
C35_CreatedSessionExists ==
    (api.last.route = "POST /sessions/" /\ api.last.status = 201) =>
        /\ SessionExistsFor(chat_sessions, api.last.user_id, api.last.returned)
        /\ session_exists(api.custom_runner, chat_sessions, api.last.user_id,
                          api.last.returned)

\* C36: a delete_session call that returns False because one of its deletes
\* raised (the route answers 500) has removed no record: the five tables are
\* as they were before the call.
C36_DeleteAllOrNothing ==
    [][ (\/ api'.last.route = "delete_session" /\ ~api'.last.returned
         \/ api'.last.route = "DELETE /sessions/{session_id}"
            /\ api'.last.status = 500) => Tables' = Tables
      ]_vars

\* C37: delete_session ran while a turn on the session was in flight and
\* returned True.  Once that turn has finished, no chat_messages,
\* session_states or transformed_messages record of the session exists; and
\* a run_conversation call that then creates the session again starts from
\* the fresh default state.
C37_DeleteDuringTurn ==
    [][ (api.last.route = "delete_session" /\ api.last.returned) =>
            \A c \in Calls : \A d \in Calls \ {c} :
                /\ (running'.call[c].phase = "done" /\ running'.call[d].phase = "idle") =>
                       {r \in chat_messages' \cup session_states'
                              \cup transformed_messages' :
                           r.session_id = SESSION_ID} = {}
                /\ (/\ running.call[c].phase = "done"
                    /\ running.call[d].phase = "idle"
                    /\ running'.call[d].phase = "awaiting"
                    /\ ~SessionExists(chat_sessions)) =>
                       running'.call[d].pre = _create_initial_state(USER_ID)
      ]_vars

\* C38: the reply AgentService._process_with_fallback returns for a message,
\* whichever of its store calls fail, is the reply
\* CustomAgentRunner._process_with_fallback returns for the same message on
\* any state.
C38_FallbacksAgree ==
    (turn.completed /\ turn.replied_by = "service_fallback") =>
        \A state \in ToolStates :
            _process_with_fallback(state, turn.user_message).reply = turn.reply

\* the service fallback answered a message with a greeting and a feeling
\* keyword while both of its message inserts failed
C38_Witness ==
    /\ turn.completed
    /\ turn.replied_by = "service_fallback"
    /\ turn.user_message = MsgSadHey
    /\ {"store_user_message", "store_assistant_message"} \subseteq turn.fails
    /\ turn.reply = REPLY_GREETING

\* the reply-producing agents among the agents a turn ran
ReplyAgents(t) ==
    SelectSeq(t.agents, LAMBDA a : a \in {"PersonaAgent", "ContextCollectionAgent"})

C40_FlagLeavesRiskAlert ==
    (turn.completed /\ turn.flags > 0) =>
        \E r \in risk_alerts :
            /\ r.session_id = SESSION_ID
            /\ r.user_id = turn.user_id
            /\ r.triggering_statement = turn.user_message
            /\ r.verdict = "UNCONFIRMED"

============================================================================
